---- MODULE Spec2Model ----
(***************************************************************************)
(* sowback: reverse tunnel proxy.  Model of the tunnel plane: the server's *)
(* client sessions (src/server/mod.rs), the public accept loops and stream *)
(* engines, and the client's demultiplexer and local-connection engine     *)
(* (src/client.rs).                                                        *)
(*                                                                         *)
(* Every tokio task is a process with a program counter; one action is the *)
(* code between two suspension points that touch shared state (a lock      *)
(* acquisition, a channel operation or a socket operation).                *)
(***************************************************************************)
EXTENDS Integers, Sequences, FiniteSets, TLC

\* ------------------------------------------------------------------ bounds
\* control connections the server's listener accepts
MaxConn == 2
\* frames a peer writes on a control connection after its Auth
MaxFrames == 1
\* public connections accepted over all proxy listeners
MaxStreams == 1
\* bytes a public peer sends on one connection
MaxBytes == 2

Conn == 1..MaxConn
StreamIds == 1..MaxStreams

\* ------------------------------------------------------ configuration
ClientIds == {"k1", "k2"}
Ports == {28000, 28001}
ConfigToken == "good"
\* ServerConfig.max_clients as configured for the modelled server
max_clients == 1
ServerName == "srv"
\* Option<T>: None and Some(x)
None == <<>>

Some(x) == <<x>>

\* no client_id
NoId == "none"

NoMessage == [type |-> "none"]

NoRead == [kind |-> "none"]

\* --------------------------------------------------------------- crypto
MAGIC_SALT == ".Kita_Ikuyo.^_^."

\* a byte string that is no hash output
RawBytes(str) == <<"raw", str, "">>

\* SHA-256 over data || salt, as an ideal (collision free) hash
sha256_with_salt(data, salt) == <<"sha256", data, salt>>

SessionKeyLen == 32

\* HKDF-SHA256, empty salt, IKM = token, info = client_id, 32 bytes of output
derive_session_key(token, client_id) ==
    [i \in 1..SessionKeyLen |-> <<"hkdf", token, client_id, i>>]

\* CryptoContext::new: Ok iff the key has 32 bytes
CryptoContextNewOk(session_key) == Len(session_key) = 32

\* ------------------------------------------------------------- messages
\* Message variants with the fields the handlers branch on or copy; the
\* display names and the local address of a service are left out
Auth(enc, id) ==
    [type |-> "Auth", enc_token |-> enc, client_id |-> id]

AuthResponse(ok, key, err) ==
    [type |-> "AuthResponse", success |-> ok, session_key |-> key,
     name |-> ServerName, error |-> err]

ProxyConfig(port) ==
    [type |-> "ProxyConfig", remote_port |-> port]

ProxyConfigResponse(ok, pid, err) ==
    [type |-> "ProxyConfigResponse", success |-> ok, proxy_id |-> pid,
     error |-> err]

Heartbeat(ts) == [type |-> "Heartbeat", timestamp |-> ts]

HeartbeatResponse(ts) == [type |-> "HeartbeatResponse", timestamp |-> ts]

NewConnection(pid, sid) ==
    [type |-> "NewConnection", proxy_id |-> pid, connection_id |-> sid]

ConnectionResponse(sid, ok) ==
    [type |-> "ConnectionResponse", connection_id |-> sid, success |-> ok]

Data(sid, bytes) ==
    [type |-> "Data", connection_id |-> sid, data |-> bytes]

CloseConnection(sid) == [type |-> "CloseConnection", connection_id |-> sid]

ErrInvalidToken == "Invalid token"
ErrInUse == "already in use by another client"
ErrBind == "Failed to bind port"

\* what a peer may present as enc_token: the salted hash of a token it
\* knows, or the raw configured token
EncTokens ==
    { sha256_with_salt(t, MAGIC_SALT) : t \in {"good", "bad"} }
    \cup { RawBytes("good") }

\* outcome of the first read of a control connection: it times out, returns
\* Ok(0) or Err, or yields bytes that are malformed, only the beginning of
\* a frame ("partial"), or one complete frame
FirstReads ==
    { [kind |-> k] : k \in {"timeout", "eof", "error", "malformed"} }
    \cup { [kind |-> "partial",
            message |-> Auth(sha256_with_salt(ConfigToken, MAGIC_SALT), k)] :
             k \in ClientIds }
    \cup { [kind |-> "frame", message |-> Auth(e, k)] :
             e \in EncTokens, k \in ClientIds }
    \cup { [kind |-> "frame", message |-> m] :
             m \in {ProxyConfig(28000), Heartbeat(1), Data(1, <<1>>)} }

\* the valid Auth frames
AuthReads ==
    { [kind |-> "frame",
       message |-> Auth(sha256_with_salt(ConfigToken, MAGIC_SALT), k)] :
        k \in ClientIds }

\* sequences over S of length at most n
RECURSIVE SeqsUpTo(_, _)
SeqsUpTo(S, n) ==
    IF n = 0 THEN {<<>>}
    ELSE LET shorter == SeqsUpTo(S, n - 1) IN
         shorter \cup { Append(q, x) : q \in shorter, x \in S }

\* frames a peer writes once the tunnel is up
ConfigFrames == { ProxyConfig(p) : p \in Ports }

PeerFrames == ConfigFrames \cup {Heartbeat(1)}

\* what a peer does after its Auth: the frames it writes, and whether it
\* then closes (or resets) the connection or keeps it open
PeerScripts(frames) ==
    { [frames |-> q, open |-> o] :
        q \in SeqsUpTo(frames, MaxFrames), o \in BOOLEAN }

\* what a public peer does: the bytes 1..n it sends, and whether it then
\* closes the connection or keeps it open
PublicScripts ==
    { [unread |-> [i \in 1..n |-> i], open |-> o] :
        n \in 0..MaxBytes, o \in BOOLEAN }

\* what the local service does on a connection: the bytes it sends (told
\* apart from a public peer's by their sign), and whether it then closes
ServiceScripts ==
    { [unread |-> [i \in 1..n |-> -i], open |-> o] :
        n \in 0..MaxBytes, o \in BOOLEAN }

\* a local service that sends nothing and keeps the connection open
SilentService == [unread |-> <<>>, open |-> TRUE]

\* ---------------------------------------------------------------- state
VARIABLES
    clients,            \* Server.clients: client_id -> ClientConnection
    proxy_listeners,    \* Server.proxy_listeners: port -> ProxyListenerInfo
    proxy_connections,  \* Server.proxy_connections: connection_id -> info
    hc,                 \* handle_client task of each control connection
    peer_open,          \* the peer has not closed (or reset) the connection
    sock_in,            \* frames the peer wrote, not yet read by the server
    sock_out,           \* frames handle_client passed to write_all itself
                        \* (the handshake), whether or not the write succeeded
    chan,               \* messages sent into the session's mpsc channel, in
                        \* order; its write_task drains them to the socket
    read_task,          \* read_task spawned by handle_client
    write_task,         \* write_task spawned by handle_client
    next_proxy_id,      \* Uuid::new_v4 for proxy_id: fresh per session
    accept_loop,        \* handle_proxy_connections task of each port
    stream,             \* handle_proxy_stream task of each connection_id
    stream_chan,        \* per-connection mpsc channel (tx in the registry)
    pub,                \* public peer's socket of each connection_id
    next_connection_id, \* Uuid::new_v4 for connection_id, a fresh counter
    tunnel_read,        \* Client: messages its tunnel read loop has handled
    local_connections,  \* Client.local_connections: ids holding a sender
    local,              \* handle_local_connection task of each connection_id
    local_chan,         \* channel from the tunnel read loop to its write_task
    local_out,          \* bytes written to the local service socket
    svc,                \* the local service's end of each local connection
    supervisor,         \* Client: connect_to_server task of the one server
    connections,        \* Client.connections: server addresses with a link
    services,           \* Client: the service configurations parsed by run
    codec,              \* a Frame on its way through serialize / deserialize
    reader,             \* a FrameReader and the byte stream fed to it
    crypto,             \* a CryptoContext and the data it is applied to
    parser,             \* a service string and what ServiceConfig::parse made of it
    links,              \* Client.connections[server_addr]: the ServerLink,
                        \* and the session whose sender it holds
    session,            \* try_connect_to_server past its insert, and the
                        \* three tasks it spawned, per session
    outbound,           \* messages sent into each session's channel
    lstream             \* Client: the local connection of each connection_id

registries == <<clients, proxy_listeners, proxy_connections>>

sessionVars == <<hc, peer_open, sock_in, sock_out, chan, read_task,
                 write_task, next_proxy_id>>

streamVars == <<accept_loop, stream, stream_chan, pub, next_connection_id>>

clientVars == <<tunnel_read, local_connections, local, local_chan, local_out,
                svc>>

tunnelVars == <<registries, sessionVars, streamVars, clientVars>>

supervisorVars == <<supervisor, connections, services>>

linkVars == <<links, session, outbound, lstream>>

\* the units modelled on their own
unitVars == <<supervisorVars, codec, reader, crypto, parser, linkVars>>

vars == <<tunnelVars, unitVars>>

\* ------------------------------------------------------------- helpers
NoTask == [pc |-> "none", message |-> NoMessage, proxy_id |-> 0]

NoLoop == [pc |-> "none", client_id |-> NoId, proxy_id |-> 0, cancel |-> FALSE,
           connection_id |-> 0]

NoStream == [pc |-> "none", client_id |-> NoId, read_task |-> "none",
             write_task |-> "none", write_error |-> FALSE,
             read_error |-> FALSE]

NoPub == [open |-> FALSE, sent |-> <<>>, unread |-> <<>>, received |-> <<>>]

NoLocal == [pc |-> "none", read_task |-> "none", write_task |-> "none"]

NoSvc == [open |-> FALSE, sent |-> <<>>, unread |-> <<>>]

NoScript == [frames |-> <<>>, open |-> TRUE]

Range(q) == { q[i] : i \in DOMAIN q }

Remove(f, k) == [x \in DOMAIN f \ {k} |-> f[x]]

Insert(f, k, v) == [x \in DOMAIN f \cup {k} |-> IF x = k THEN v ELSE f[x]]

\* HashMap::contains_key on the client registry
ClientExists(k) == k \in DOMAIN clients

\* the session whose tx is stored in the registry under client_id k
SenderOf(k) == clients[k].conn

\* mpsc::UnboundedSender::send: Err iff the receiver (owned by the
\* write_task of that session) has been dropped
SendOk(c) == write_task[c] # "done"

Sent(ch, c, m) == IF SendOk(c) THEN [ch EXCEPT ![c] = Append(@, m)] ELSE ch

\* proxy ids are fresh: those minted on connection c start here
FirstProxyId(c) == 10 * c + 1

\* a supervisor that has not started, and no frame, reader or cipher in use
NoSupervisor == [pc |-> "none"]

NoCodec == [pc |-> "none"]

NoReader == [pc |-> "none"]

NoCrypto == [pc |-> "none"]

NoParser == [pc |-> "none"]

\* sessions of the client to the one server that are told apart
MaxSessions == 2

Sessions == 1..MaxSessions

NoSession == [pc |-> "none", heartbeat |-> "none", read_task |-> "none",
              write_task |-> "none", beats |-> 0]

NoLstream == [session |-> 0, proxy |-> 0, service |-> 0, read_task |-> "none",
              registered |-> FALSE, sent |-> 0]

LinksAtRest ==
    /\ links = None
    /\ session = [n \in Sessions |-> NoSession]
    /\ outbound = [n \in Sessions |-> <<>>]
    /\ lstream = [s \in StreamIds |-> NoLstream]

SupervisorAtRest ==
    /\ supervisor = NoSupervisor
    /\ connections = {}
    /\ services = <<>>

UnitsAtRest ==
    /\ SupervisorAtRest
    /\ codec = NoCodec
    /\ reader = NoReader
    /\ crypto = NoCrypto
    /\ parser = NoParser
    /\ LinksAtRest

\* the server with no connection accepted
ServerAtRest ==
    /\ clients = <<>>
    /\ proxy_listeners = <<>>
    /\ proxy_connections = <<>>
    /\ hc = [c \in Conn |-> [pc |-> "none", first |-> NoRead, client_id |-> NoId]]
    /\ peer_open = [c \in Conn |-> TRUE]
    /\ sock_in = [c \in Conn |-> <<>>]
    /\ sock_out = [c \in Conn |-> <<>>]
    /\ chan = [c \in Conn |-> <<>>]
    /\ read_task = [c \in Conn |-> NoTask]
    /\ write_task = [c \in Conn |-> "none"]
    /\ next_proxy_id = [c \in Conn |-> FirstProxyId(c)]
    /\ accept_loop = [p \in Ports |-> NoLoop]
    /\ stream = [s \in StreamIds |-> NoStream]
    /\ stream_chan = [s \in StreamIds |-> <<>>]
    /\ pub = [s \in StreamIds |-> NoPub]
    /\ next_connection_id = 1
    /\ tunnel_read = 0
    /\ local_connections = {}
    /\ local = [s \in StreamIds |-> NoLocal]
    /\ local_chan = [s \in StreamIds |-> <<>>]
    /\ local_out = [s \in StreamIds |-> <<>>]
    /\ svc = [s \in StreamIds |-> NoSvc]

Init == ServerAtRest /\ UnitsAtRest

\* ------------------------------------------------- handle_client (auth)
\* variant: an incomplete Auth frame is taken for a complete one
FirstFrameIsAuthPartial(r) ==
    r.kind \in {"frame", "partial"} /\ r.message.type = "Auth"

\* try_read_frame yielded a frame and it matches Message::Auth
FirstFrameIsAuth(r) == r.kind = "frame" /\ r.message.type = "Auth"

\* variant: the token is compared unhashed
TokenMatchesUnhashed(enc_token) == enc_token = RawBytes(ConfigToken)

\* enc_token == sha256_with_salt(config.token, MAGIC_SALT)
TokenMatches(enc_token) ==
    enc_token = sha256_with_salt(ConfigToken, MAGIC_SALT)

\* variant: the key is derived with token and client_id exchanged
SessionKeyForSwapped(client_id) == derive_session_key(client_id, ConfigToken)

\* CryptoContext::derive_session_key(&self.config.token, &client_id)
SessionKeyFor(client_id) == derive_session_key(ConfigToken, client_id)

\* variant: the insertion is made without the contains_key check
AdmitClientUnchecked(k) == TRUE

\* the check made under the write lock before the insertion
AdmitClient(k) == ~ClientExists(k)

RegisterClient(c, k, key) ==
    Insert(clients, k, [conn |-> c, crypto |-> key, proxies |-> {}])

\* first read failed, or the first frame is not Auth: return Err
HandleClientAbort(c, r) ==
    /\ ~FirstFrameIsAuth(r)
    /\ hc' = [hc EXCEPT ![c] = [pc |-> "done", first |-> r, client_id |-> NoId]]
    /\ UNCHANGED <<unitVars, clientVars, registries, peer_open, sock_in, sock_out, chan, read_task,
                   write_task, next_proxy_id, streamVars>>

\* token mismatch: one AuthResponse{success=false}, then return Err
HandleClientBadToken(c, r, wok) ==
    /\ FirstFrameIsAuth(r)
    /\ ~TokenMatches(r.message.enc_token)
    /\ sock_out' = [sock_out EXCEPT
         ![c] = Append(@, AuthResponse(FALSE, None, Some(ErrInvalidToken)))]
    /\ peer_open' = [peer_open EXCEPT ![c] = wok]
    /\ hc' = [hc EXCEPT ![c] = [pc |-> "done", first |-> r, client_id |-> NoId]]
    /\ UNCHANGED <<unitVars, clientVars, registries, sock_in, chan, read_task, write_task,
                   next_proxy_id, streamVars>>

\* token match: derive the key, answer, register unless the id is taken,
\* then spawn read_task and write_task and wait in select!
HandleClientAuthOk(c, r, wok, script) ==
    LET k == r.message.client_id
        key == SessionKeyFor(k)
    IN
    /\ FirstFrameIsAuth(r)
    /\ TokenMatches(r.message.enc_token)
    /\ IF ~CryptoContextNewOk(key)
       THEN /\ wok /\ script = NoScript
            /\ hc' = [hc EXCEPT ![c] = [pc |-> "done", first |-> r, client_id |-> k]]
            /\ UNCHANGED <<clients, peer_open, sock_in, sock_out, read_task,
                           write_task>>
       ELSE /\ sock_out' = [sock_out EXCEPT
                              ![c] = Append(@, AuthResponse(TRUE, Some(key), None))]
            /\ IF wok /\ AdmitClient(k)
               THEN /\ clients' = RegisterClient(c, k, key)
                    /\ hc' = [hc EXCEPT ![c] = [pc |-> "select", first |-> r,
                                                client_id |-> k]]
                    /\ read_task' = [read_task EXCEPT ![c].pc = "read"]
                    /\ write_task' = [write_task EXCEPT ![c] = "run"]
                    /\ sock_in' = [sock_in EXCEPT ![c] = script.frames]
                    /\ peer_open' = [peer_open EXCEPT ![c] = script.open]
               ELSE /\ script = [frames |-> <<>>, open |-> wok]
                    /\ hc' = [hc EXCEPT ![c] = [pc |-> "done", first |-> r,
                                                client_id |-> k]]
                    /\ peer_open' = [peer_open EXCEPT ![c] = wok]
                    /\ UNCHANGED <<clients, sock_in, read_task, write_task>>
    /\ UNCHANGED <<unitVars, clientVars, proxy_listeners, proxy_connections, chan, next_proxy_id,
                   streamVars>>

\* handle_client up to select!: the first read is r, the write of the
\* AuthResponse succeeds or not, and the peer goes on as in script
handle_client(c, r, wok, script) ==
    /\ hc[c].pc = "none"
    /\ \/ /\ HandleClientAbort(c, r)
          /\ wok /\ script = NoScript
       \/ /\ HandleClientBadToken(c, r, wok)
          /\ script = [frames |-> <<>>, open |-> wok]
       \/ HandleClientAuthOk(c, r, wok, script)

\* ------------------------------------------------ handle_client_message
\* Data: forward to the per-connection channel if the id is registered;
\* the send fails (logged only) once the stream's write_task dropped rx
DataForwarded(k, s) ==
    /\ s \in DOMAIN proxy_connections
    /\ stream[s].write_task # "done"

HandleData(c, m) ==
    /\ stream_chan' =
         IF DataForwarded(hc[c].client_id, m.connection_id)
         THEN [stream_chan EXCEPT ![m.connection_id] = Append(@, m.data)]
         ELSE stream_chan
    /\ read_task' = [read_task EXCEPT ![c] = [NoTask EXCEPT !.pc = "read"]]
    /\ UNCHANGED <<registries, chan, next_proxy_id, accept_loop, stream, pub,
                   next_connection_id>>

\* variant: the response carries the time of the server, not the echo
HandleHeartbeatRestamped(c, m) ==
    LET k == hc[c].client_id IN
    /\ chan' = IF ClientExists(k)
               THEN Sent(chan, SenderOf(k), HeartbeatResponse(m.timestamp + 1))
               ELSE chan
    /\ read_task' = [read_task EXCEPT ![c] = [NoTask EXCEPT !.pc = "read"]]
    /\ UNCHANGED <<unitVars, registries, next_proxy_id, streamVars>>

\* Heartbeat: echo the timestamp if the client is still registered
HandleHeartbeat(c, m) ==
    LET k == hc[c].client_id IN
    /\ chan' = IF ClientExists(k)
               THEN Sent(chan, SenderOf(k), HeartbeatResponse(m.timestamp))
               ELSE chan
    /\ read_task' = [read_task EXCEPT ![c] = [NoTask EXCEPT !.pc = "read"]]
    /\ UNCHANGED <<unitVars, registries, next_proxy_id, streamVars>>

\* any other message: warn, Ok(())
HandleUnexpected(c, m) ==
    /\ read_task' = [read_task EXCEPT ![c] = [NoTask EXCEPT !.pc = "read"]]
    /\ UNCHANGED <<unitVars, registries, chan, next_proxy_id, streamVars>>

\* ProxyConfig, first lock (clients.write): mint proxy_id, record the
\* ProxyInfo on the session and send success=true, if the client exists
HandleProxyConfig(c, m) ==
    LET k == hc[c].client_id
        proxy_id == next_proxy_id[c]
    IN
    /\ next_proxy_id' = [next_proxy_id EXCEPT ![c] = @ + 1]
    /\ IF ClientExists(k)
       THEN /\ clients' = [clients EXCEPT
                             ![k].proxies = @ \cup {<<proxy_id, m.remote_port>>}]
            /\ chan' = Sent(chan, SenderOf(k),
                            ProxyConfigResponse(TRUE, Some(proxy_id), None))
       ELSE UNCHANGED <<clients, chan>>
    /\ read_task' = [read_task EXCEPT
                       ![c] = [pc |-> "listeners", message |-> m,
                               proxy_id |-> proxy_id]]
    /\ UNCHANGED <<proxy_listeners, proxy_connections, streamVars>>

\* the bound port is free when no accept loop still holds its listener
PortFree(p) == accept_loop[p].pc = "none"

\* variant: the requester's entry replaces the one in the registry
ListenersAfterConfigOverwrite(p, k, proxy_id, bound) ==
    Insert(proxy_listeners, p, [client_id |-> k, proxy_id |-> proxy_id])

\* the port registry after the second half of ProxyConfig
ListenersAfterConfig(p, k, proxy_id, bound) ==
    IF p \notin DOMAIN proxy_listeners /\ bound
    THEN Insert(proxy_listeners, p, [client_id |-> k, proxy_id |-> proxy_id])
    ELSE proxy_listeners

\* variant: the owner of the port is refused like any other client
ConfigFailureOwnerRefused(p, k, bound) ==
    IF p \notin DOMAIN proxy_listeners
    THEN IF bound THEN None ELSE Some(ErrBind)
    ELSE Some(ErrInUse)

\* the failure reply of the second half of ProxyConfig, or None
ConfigFailure(p, k, bound) ==
    IF p \notin DOMAIN proxy_listeners
    THEN IF bound THEN None ELSE Some(ErrBind)
    ELSE IF proxy_listeners[p].client_id # k THEN Some(ErrInUse) ELSE None

\* ProxyConfig, second lock (proxy_listeners.write): bind and install the
\* listener and spawn its accept loop, or reply success=false
HandleProxyConfigListeners(c, bound) ==
    LET k == hc[c].client_id
        p == read_task[c].message.remote_port
        proxy_id == read_task[c].proxy_id
        err == ConfigFailure(p, k, bound)
    IN
    /\ read_task[c].pc = "listeners"
    /\ bound => (p \notin DOMAIN proxy_listeners /\ PortFree(p))
    /\ proxy_listeners' = ListenersAfterConfig(p, k, proxy_id, bound)
    /\ accept_loop' =
         IF bound
         THEN [accept_loop EXCEPT
                 ![p] = [NoLoop EXCEPT !.pc = "wait", !.client_id = k,
                                       !.proxy_id = proxy_id]]
         ELSE accept_loop
    /\ chan' = IF err # None /\ ClientExists(k)
               THEN Sent(chan, SenderOf(k), ProxyConfigResponse(FALSE, None, err))
               ELSE chan
    /\ read_task' = [read_task EXCEPT ![c] = [NoTask EXCEPT !.pc = "read"]]
    /\ UNCHANGED <<unitVars, clientVars, clients, proxy_connections, next_proxy_id, stream,
                   stream_chan, pub, next_connection_id, hc, peer_open,
                   sock_in, sock_out, write_task>>

\* ----------------------------------------------------------- read_task
\* a complete frame whose payload bincode fails to decode
Undecodable == [type |-> "Undecodable"]

\* try_read_frame drains a frame from the buffer only after it has been
\* deserialized; on Err the frame stays at the head of the buffer
BufferAfterTry(buffer) ==
    IF Head(buffer) = Undecodable THEN buffer ELSE Tail(buffer)

\* try_read_frame().unwrap_or(None): the Err ends the inner loop like an
\* empty buffer does, and read_task is back at its read
HandleUndecodable(c) ==
    UNCHANGED <<registries, chan, read_task, next_proxy_id, streamVars>>

\* one frame out of the tunnel, dispatched by handle_client_message
ReadTaskFrame(c) ==
    /\ read_task[c].pc = "read"
    /\ sock_in[c] # <<>>
    /\ sock_in' = [sock_in EXCEPT ![c] = BufferAfterTry(@)]
    /\ LET m == Head(sock_in[c]) IN
         CASE m.type = "Undecodable" -> HandleUndecodable(c)
           [] m.type = "Data" -> HandleData(c, m)
           [] m.type = "ProxyConfig" -> HandleProxyConfig(c, m)
           [] m.type = "Heartbeat" -> HandleHeartbeat(c, m)
           [] OTHER -> HandleUnexpected(c, m)
    /\ UNCHANGED <<unitVars, clientVars, hc, peer_open, sock_out, write_task>>

\* ------------------------------------------------------ cleanup_client
\* first lock: clients.remove(client_id).is_some()
ClientsAfterCleanup(k) == IF ClientExists(k) THEN Remove(clients, k) ELSE clients

PortsOf(k) == { p \in DOMAIN proxy_listeners : proxy_listeners[p].client_id = k }

\* second lock: send cancel to and remove every listener of the client
ListenersAfterCleanup(k) ==
    [p \in DOMAIN proxy_listeners \ PortsOf(k) |-> proxy_listeners[p]]

CancelSent(k) ==
    [p \in Ports |-> IF p \in PortsOf(k) /\ accept_loop[p].pc # "none"
                     THEN [accept_loop[p] EXCEPT !.cancel = TRUE]
                     ELSE accept_loop[p]]

\* third lock: remove every active connection of the client
ConnectionsAfterCleanup(k) ==
    [s \in { x \in DOMAIN proxy_connections :
               proxy_connections[x].client_id # k } |-> proxy_connections[s]]

\* where a caller of cleanup_client goes after the first lock
AfterRemove(k) == IF ClientExists(k) THEN "cleanup_listeners" ELSE "done"

\* the three locked sections of cleanup_client(k), entered at pc
cleanup_client(k, pc) ==
    \/ /\ pc = "cleanup"
       /\ clients' = ClientsAfterCleanup(k)
       /\ UNCHANGED <<proxy_listeners, proxy_connections, accept_loop>>
    \/ /\ pc = "cleanup_listeners"
       /\ proxy_listeners' = ListenersAfterCleanup(k)
       /\ accept_loop' = CancelSent(k)
       /\ UNCHANGED <<clients, proxy_connections>>
    \/ /\ pc = "cleanup_connections"
       /\ proxy_connections' = ConnectionsAfterCleanup(k)
       /\ UNCHANGED <<clients, proxy_listeners, accept_loop>>

NextCleanupPc(k, pc) ==
    CASE pc = "cleanup" -> AfterRemove(k)
      [] pc = "cleanup_listeners" -> "cleanup_connections"
      [] OTHER -> "done"

\* read returns Ok(0) or Err once the peer is gone (frames still buffered
\* are lost on a reset): read_task leaves its loop and is in cleanup_client
ReadTaskPc(c) ==
    IF read_task[c].pc = "read" /\ ~peer_open[c]
    THEN "cleanup" ELSE read_task[c].pc

ReadTaskCleanup(c) ==
    LET k == hc[c].client_id
        pc == ReadTaskPc(c)
    IN
    /\ cleanup_client(k, pc)
    /\ read_task' = [read_task EXCEPT ![c].pc = NextCleanupPc(k, pc)]
    /\ sock_in' = [sock_in EXCEPT ![c] = <<>>]
    /\ UNCHANGED <<unitVars, clientVars, hc, peer_open, sock_out, chan, write_task, next_proxy_id,
                   stream, stream_chan, pub, next_connection_id>>

\* select! of handle_client returned because either task has ended:
\* handle_client is in cleanup_client
HandleClientPc(c) ==
    IF /\ hc[c].pc = "select"
       /\ read_task[c].pc = "done" \/ write_task[c] = "done"
    THEN "cleanup" ELSE hc[c].pc

HandleClientCleanup(c) ==
    LET k == hc[c].client_id
        pc == HandleClientPc(c)
    IN
    /\ cleanup_client(k, pc)
    /\ hc' = [hc EXCEPT ![c].pc = NextCleanupPc(k, pc)]
    /\ UNCHANGED <<unitVars, clientVars, peer_open, sock_in, sock_out, chan, read_task, write_task,
                   next_proxy_id, stream, stream_chan, pub,
                   next_connection_id>>

\* ---------------------------------------------------------- write_task
\* the tx of session c lives only in its registry entry
SenderAlive(c) == \E k \in DOMAIN clients : clients[k].conn = c

\* write_all of a message taken from the channel returns Err: the task
\* ends and drops rx
WriteTaskError(c) ==
    /\ write_task[c] = "run"
    /\ chan[c] # <<>>
    /\ ~peer_open[c]
    /\ write_task' = [write_task EXCEPT ![c] = "done"]
    /\ UNCHANGED <<unitVars, clientVars, registries, hc, peer_open, sock_in, sock_out, chan,
                   read_task, next_proxy_id, streamVars>>

\* rx.recv() yields None: every tx is dropped and the channel is drained
WriteTaskEnd(c) ==
    /\ write_task[c] = "run"
    /\ ~SenderAlive(c)
    /\ write_task' = [write_task EXCEPT ![c] = "done"]
    /\ UNCHANGED <<unitVars, clientVars, registries, hc, peer_open, sock_in, sock_out, chan,
                   read_task, next_proxy_id, streamVars>>

\* ------------------------------------------- handle_proxy_connections
\* select! takes the cancel branch: log and break
AcceptLoopCancel(p) ==
    /\ accept_loop[p].pc = "wait"
    /\ accept_loop[p].cancel
    /\ accept_loop' = [accept_loop EXCEPT ![p] = NoLoop]
    /\ UNCHANGED <<unitVars, clientVars, registries, sessionVars, stream, stream_chan, pub,
                   next_connection_id>>

\* the 'client still exists' check made right after accept
OwnerRegistered(k) == ClientExists(k)

\* select! takes the accept branch: a public connection arrived, whose
\* peer goes on as in script.  If the owner is gone the socket is dropped
\* and the loop ends, else a connection_id is minted.
AcceptLoopAccept(p, script) ==
    LET k == accept_loop[p].client_id
        s == next_connection_id
    IN
    /\ accept_loop[p].pc = "wait"
    /\ IF OwnerRegistered(k)
       THEN /\ s \in StreamIds
            /\ accept_loop' = [accept_loop EXCEPT ![p].pc = "notify",
                                                  ![p].connection_id = s]
            /\ pub' = [pub EXCEPT ![s] = [open |-> script.open,
                                          sent |-> script.unread,
                                          unread |-> script.unread,
                                          received |-> <<>>]]
            /\ next_connection_id' = s + 1
       ELSE /\ script = [unread |-> <<>>, open |-> TRUE]
            /\ accept_loop' = [accept_loop EXCEPT ![p] = NoLoop]
            /\ UNCHANGED <<pub, next_connection_id>>
    /\ UNCHANGED <<unitVars, clientVars, registries, sessionVars, stream, stream_chan>>

\* select! takes the accept branch and accept() returns Err (for one, the
\* process has no file descriptor left): log and break
AcceptLoopError(p) ==
    /\ accept_loop[p].pc = "wait"
    /\ accept_loop' = [accept_loop EXCEPT ![p] = NoLoop]
    /\ UNCHANGED <<unitVars, clientVars, registries, sessionVars, stream, stream_chan, pub,
                   next_connection_id>>

\* second lock of the accept branch: send NewConnection to the owner and
\* spawn handle_proxy_stream; if the owner is gone or the send fails the
\* accepted socket is dropped and the loop continues
AcceptLoopNotify(p) ==
    LET k == accept_loop[p].client_id
        s == accept_loop[p].connection_id
        ok == ClientExists(k) /\ SendOk(SenderOf(k))
    IN
    /\ accept_loop[p].pc = "notify"
    /\ accept_loop' = [accept_loop EXCEPT ![p].pc = "wait",
                                          ![p].connection_id = 0]
    /\ chan' = IF ok
               THEN Sent(chan, SenderOf(k),
                         NewConnection(accept_loop[p].proxy_id, s))
               ELSE chan
    /\ stream' = IF ok
                 THEN [stream EXCEPT ![s] = [NoStream EXCEPT
                                               !.pc = "spawned", !.client_id = k]]
                 ELSE stream
    /\ pub' = IF ok THEN pub ELSE [pub EXCEPT ![s] = NoPub]
    /\ UNCHANGED <<unitVars, clientVars, registries, hc, peer_open, sock_in, sock_out, read_task,
                   write_task, next_proxy_id, stream_chan, next_connection_id>>

\* ------------------------------------------------ handle_proxy_stream
\* register the ActiveConnection, then spawn read_task and write_task
ConnectionsAfterInsert(s) ==
    Insert(proxy_connections, s, [client_id |-> stream[s].client_id])

StreamInsert(s) ==
    /\ stream[s].pc = "spawned"
    /\ proxy_connections' = ConnectionsAfterInsert(s)
    /\ stream' = [stream EXCEPT ![s].pc = "select", ![s].read_task = "run",
                                ![s].write_task = "run"]
    /\ UNCHANGED <<unitVars, clientVars, clients, proxy_listeners, sessionVars, accept_loop,
                   stream_chan, pub, next_connection_id>>

\* read_task: n > 0 bytes read from the public socket; forward them as
\* Data, or break if the owner is gone or its channel is closed
StreamReadData(s, n) ==
    LET k == stream[s].client_id
        ok == ClientExists(k) /\ SendOk(SenderOf(k))
    IN
    /\ stream[s].read_task = "run"
    /\ n \in 1..Len(pub[s].unread)
    /\ pub' = [pub EXCEPT ![s].unread = SubSeq(@, n + 1, Len(@))]
    /\ chan' = IF ok
               THEN Sent(chan, SenderOf(k), Data(s, SubSeq(pub[s].unread, 1, n)))
               ELSE chan
    /\ stream' = IF ok THEN stream ELSE [stream EXCEPT ![s].read_task = "done"]
    /\ UNCHANGED <<unitVars, clientVars, registries, hc, peer_open, sock_in, sock_out, read_task,
                   write_task, next_proxy_id, accept_loop, stream_chan,
                   next_connection_id>>

\* read_task: Ok(0); send CloseConnection if the owner exists, and break
StreamReadEof(s) ==
    LET k == stream[s].client_id IN
    /\ stream[s].read_task = "run"
    /\ pub[s].unread = <<>>
    /\ ~pub[s].open
    /\ chan' = IF ClientExists(k)
               THEN Sent(chan, SenderOf(k), CloseConnection(s))
               ELSE chan
    /\ stream' = [stream EXCEPT ![s].read_task = "done"]
    /\ UNCHANGED <<unitVars, clientVars, registries, hc, peer_open, sock_in, sock_out, read_task,
                   write_task, next_proxy_id, accept_loop, stream_chan, pub,
                   next_connection_id>>

\* read_task: Err from the public socket (the peer reset the connection);
\* log and break, nothing is sent
StreamReadError(s) ==
    /\ stream[s].read_task = "run"
    /\ ~pub[s].open
    /\ stream' = [stream EXCEPT ![s].read_task = "done",
                                ![s].read_error = TRUE]
    /\ UNCHANGED <<unitVars, clientVars, registries, sessionVars, accept_loop,
                   stream_chan, pub, next_connection_id>>

\* write_task: a chunk from the per-connection channel is written to the
\* public socket; an Err ends the task
StreamWrite(s, wok) ==
    /\ stream[s].write_task = "run"
    /\ stream_chan[s] # <<>>
    /\ ~wok => ~pub[s].open
    /\ pub' = [pub EXCEPT ![s].received =
                 IF wok THEN @ \o Head(stream_chan[s]) ELSE @]
    /\ stream_chan' = [stream_chan EXCEPT ![s] = IF wok THEN Tail(@) ELSE <<>>]
    /\ stream' = [stream EXCEPT ![s].write_task = IF wok THEN "run" ELSE "done",
                                ![s].write_error = ~wok]
    /\ UNCHANGED <<unitVars, clientVars, registries, sessionVars, accept_loop, next_connection_id>>

\* write_task: rx.recv() yields None once the registry entry (tx) is gone
StreamWriteEnd(s) ==
    /\ stream[s].write_task = "run"
    /\ stream_chan[s] = <<>>
    /\ s \notin DOMAIN proxy_connections
    /\ stream' = [stream EXCEPT ![s].write_task = "done"]
    /\ UNCHANGED <<unitVars, clientVars, registries, sessionVars, accept_loop, stream_chan, pub,
                   next_connection_id>>

\* variant: every active connection of the stream's client is removed
StreamSelectDropsAll(s) ==
    /\ stream[s].pc = "select"
    /\ stream[s].read_task = "done" \/ stream[s].write_task = "done"
    /\ proxy_connections' =
         [t \in { x \in DOMAIN proxy_connections :
                    proxy_connections[x].client_id # stream[s].client_id } |->
            proxy_connections[t]]
    /\ stream' = [stream EXCEPT ![s].pc = "done"]
    /\ UNCHANGED <<unitVars, clientVars, clients, proxy_listeners, sessionVars, accept_loop,
                   stream_chan, pub, next_connection_id>>

\* select! of handle_proxy_stream: either task ended; remove the entry
StreamSelect(s) ==
    /\ stream[s].pc = "select"
    /\ stream[s].read_task = "done" \/ stream[s].write_task = "done"
    /\ proxy_connections' =
         IF s \in DOMAIN proxy_connections
         THEN Remove(proxy_connections, s) ELSE proxy_connections
    /\ stream' = [stream EXCEPT ![s].pc = "done"]
    /\ UNCHANGED <<unitVars, clientVars, clients, proxy_listeners, sessionVars, accept_loop,
                   stream_chan, pub, next_connection_id>>

\* ------------------------------------------------------------ Client
\* the control connection the modelled client is on
TunnelConns == {1}

\* Client::handle_server_message, NewConnection: connect to the local
\* service of the first service config, answer with ConnectionResponse
\* and, on success, spawn handle_local_connection; the service goes on as
\* in script
ClientNewConnection(c, m, connected, script) ==
    LET s == m.connection_id IN
    /\ sock_in' = [sock_in EXCEPT
                     ![c] = Append(@, ConnectionResponse(s, connected))]
    /\ local' = IF connected
                THEN [local EXCEPT ![s] = [NoLocal EXCEPT !.pc = "spawned"]]
                ELSE local
    /\ IF connected
       THEN svc' = [svc EXCEPT ![s] = [open |-> script.open,
                                       sent |-> script.unread,
                                       unread |-> script.unread]]
       ELSE script = SilentService /\ svc' = svc
    /\ UNCHANGED <<local_connections, local_chan>>

\* variant: a chunk is put in front of the chunks already queued
LocalChanAfterDataPrepended(m) ==
    LET s == m.connection_id IN
    IF s \in local_connections /\ local[s].write_task # "done"
    THEN [local_chan EXCEPT ![s] = <<m.data>> \o @]
    ELSE local_chan

\* Data: forward to the local connection if its id is in the table, else
\* warn and drop the chunk
LocalChanAfterData(m) ==
    LET s == m.connection_id IN
    IF s \in local_connections /\ local[s].write_task # "done"
    THEN [local_chan EXCEPT ![s] = Append(@, m.data)]
    ELSE local_chan

ClientData(c, m) ==
    /\ local_chan' = LocalChanAfterData(m)
    /\ UNCHANGED <<sock_in, local, local_connections, svc>>

\* CloseConnection: remove the id from the table (dropping its sender)
ClientCloseConnection(c, m) ==
    /\ local_connections' = local_connections \ {m.connection_id}
    /\ UNCHANGED <<sock_in, local, local_chan, svc>>

\* responses and unexpected messages are only logged
ClientLogged(c, m) ==
    UNCHANGED <<sock_in, local, local_connections, local_chan, svc>>

\* the client's tunnel read loop takes the next message off the tunnel
handle_server_message(c, connected, script) ==
    /\ tunnel_read < Len(chan[c])
    /\ tunnel_read' = tunnel_read + 1
    /\ LET m == chan[c][tunnel_read + 1]
           only == connected /\ script = SilentService
       IN
         CASE m.type = "NewConnection" ->
                ClientNewConnection(c, m, connected, script)
           [] m.type = "Data" -> only /\ ClientData(c, m)
           [] m.type = "CloseConnection" -> only /\ ClientCloseConnection(c, m)
           [] OTHER -> only /\ ClientLogged(c, m)
    /\ UNCHANGED <<unitVars, registries, hc, peer_open, sock_out, chan, read_task,
                   write_task, next_proxy_id, streamVars, local_out>>

\* handle_local_connection: insert the sender under connection_id, then
\* spawn read_task and write_task
LocalInsert(s) ==
    /\ local[s].pc = "spawned"
    /\ local_connections' = local_connections \cup {s}
    /\ local' = [local EXCEPT ![s] = [pc |-> "select", read_task |-> "run",
                                      write_task |-> "run"]]
    /\ UNCHANGED <<unitVars, registries, sessionVars, streamVars, tunnel_read,
                   local_chan, local_out, svc>>

\* read_task: n > 0 bytes read from the local service are sent to the
\* server as Data on the control connection c (the ServerLink of c is in
\* the table for as long as the tunnel is up)
LocalReadData(c, s, n) ==
    /\ local[s].read_task = "run"
    /\ n \in 1..Len(svc[s].unread)
    /\ svc' = [svc EXCEPT ![s].unread = SubSeq(@, n + 1, Len(@))]
    /\ sock_in' = [sock_in EXCEPT
                     ![c] = Append(@, Data(s, SubSeq(svc[s].unread, 1, n)))]
    /\ UNCHANGED <<unitVars, registries, hc, peer_open, sock_out, chan, read_task,
                   write_task, next_proxy_id, streamVars, tunnel_read,
                   local_connections, local, local_chan, local_out>>

\* read_task: Ok(0); send CloseConnection to the server, and break
LocalReadEof(c, s) ==
    /\ local[s].read_task = "run"
    /\ svc[s].unread = <<>>
    /\ ~svc[s].open
    /\ sock_in' = [sock_in EXCEPT ![c] = Append(@, CloseConnection(s))]
    /\ local' = [local EXCEPT ![s].read_task = "done"]
    /\ UNCHANGED <<unitVars, registries, hc, peer_open, sock_out, chan, read_task,
                   write_task, next_proxy_id, streamVars, tunnel_read,
                   local_connections, local_chan, local_out, svc>>

\* write_task: write one chunk to the local service
LocalWrite(s) ==
    /\ local[s].write_task = "run"
    /\ local_chan[s] # <<>>
    /\ local_out' = [local_out EXCEPT ![s] = @ \o Head(local_chan[s])]
    /\ local_chan' = [local_chan EXCEPT ![s] = Tail(@)]
    /\ UNCHANGED <<unitVars, registries, sessionVars, streamVars, tunnel_read,
                   local_connections, local, svc>>

\* write_task: rx.recv() yields None once the table entry is removed
LocalWriteEnd(s) ==
    /\ local[s].write_task = "run"
    /\ local_chan[s] = <<>>
    /\ s \notin local_connections
    /\ local' = [local EXCEPT ![s].write_task = "done"]
    /\ UNCHANGED <<unitVars, registries, sessionVars, streamVars, tunnel_read,
                   local_connections, local_chan, local_out, svc>>

\* select! of handle_local_connection returned: remove the table entry
LocalSelect(s) ==
    /\ local[s].pc = "select"
    /\ local[s].read_task = "done" \/ local[s].write_task = "done"
    /\ local_connections' = local_connections \ {s}
    /\ local' = [local EXCEPT ![s].pc = "done"]
    /\ UNCHANGED <<unitVars, registries, sessionVars, streamVars, tunnel_read,
                   local_chan, local_out, svc>>

\* ------------------------------------------------------ specifications
\* a control connection from accept to the end of its session
Session(c, reads, frames) ==
    \/ \E r \in reads, wok \in BOOLEAN, script \in PeerScripts(frames) :
          handle_client(c, r, wok, script)
    \/ ReadTaskFrame(c)
    \/ \E bound \in BOOLEAN : HandleProxyConfigListeners(c, bound)
    \/ ReadTaskCleanup(c)
    \/ HandleClientCleanup(c)
    \/ WriteTaskError(c)
    \/ WriteTaskEnd(c)

\* a public connection from accept to the end of its stream engine
Public(s) ==
    \/ StreamInsert(s)
    \/ \E n \in 1..MaxBytes : StreamReadData(s, n)
    \/ StreamReadEof(s)
    \/ StreamReadError(s)
    \/ StreamWriteEnd(s)
    \/ StreamSelect(s)

\* the sessions of the server and their listeners; no public peer connects
Next ==
    \/ \E c \in Conn : Session(c, AuthReads, ConfigFrames)
    \/ \E p \in Ports : AcceptLoopCancel(p)

Spec == Init /\ [][Next]_vars

\* the sessions of the server over every kind of first read, and with
\* heartbeats among the frames that follow
NextAuth ==
    \/ \E c \in Conn : Session(c, FirstReads, PeerFrames)
    \/ \E p \in Ports : AcceptLoopCancel(p)

SpecAuth == Init /\ [][NextAuth]_vars

\* heartbeats a client sends in one session
MaxBeats == 2

\* sessions whose clients send heartbeats only, with rising timestamps
HeartbeatScripts ==
    { [frames |-> [i \in 1..n |-> Heartbeat(i)], open |-> o] :
        n \in 0..MaxBeats, o \in BOOLEAN }

NextHeartbeat ==
    \/ \E c \in Conn, r \in AuthReads, wok \in BOOLEAN,
          script \in HeartbeatScripts : handle_client(c, r, wok, script)
    \/ \E c \in Conn : ReadTaskFrame(c)
    \/ \E c \in Conn : ReadTaskCleanup(c)
    \/ \E c \in Conn : HandleClientCleanup(c)
    \/ \E c \in Conn : WriteTaskError(c)
    \/ \E c \in Conn : WriteTaskEnd(c)

SpecHeartbeat == Init /\ [][NextHeartbeat]_vars

\* sessions whose clients break the protocol: frames that do not decode
\* and messages no established session expects from a client, before or
\* in place of a heartbeat
ProtocolScripts ==
    { [frames |-> q, open |-> o] :
        q \in SeqsUpTo({Undecodable, HeartbeatResponse(1), Heartbeat(1)},
                       MaxBeats),
        o \in BOOLEAN }

NextProtocol ==
    \/ \E c \in Conn, r \in AuthReads, wok \in BOOLEAN,
          script \in ProtocolScripts : handle_client(c, r, wok, script)
    \/ \E c \in Conn : ReadTaskFrame(c)
    \/ \E c \in Conn : ReadTaskCleanup(c)
    \/ \E c \in Conn : HandleClientCleanup(c)
    \/ \E c \in Conn : WriteTaskError(c)
    \/ \E c \in Conn : WriteTaskEnd(c)

SpecProtocol == Init /\ [][NextProtocol]_vars

\* every task of a session that can take a step is eventually scheduled
FairProtocol ==
    /\ SpecProtocol
    /\ \A c \in Conn :
          /\ WF_vars(ReadTaskFrame(c))
          /\ WF_vars(ReadTaskCleanup(c))
          /\ WF_vars(HandleClientCleanup(c))
          /\ WF_vars(WriteTaskError(c))
          /\ WF_vars(WriteTaskEnd(c))

\* ProxyConfig frames a client sends in one session
MaxConfigs == 2

\* sessions whose clients configure their services, some of them twice
ReconfigScripts ==
    { [frames |-> q, open |-> o] :
        q \in SeqsUpTo(ConfigFrames, MaxConfigs), o \in BOOLEAN }

\* one session that configures ports, and public peers connecting to them
NextReconfig ==
    \/ \E c \in TunnelConns, r \in AuthReads, wok \in BOOLEAN,
          script \in ReconfigScripts : handle_client(c, r, wok, script)
    \/ \E c \in TunnelConns : ReadTaskFrame(c)
    \/ \E c \in TunnelConns, bound \in BOOLEAN :
          HandleProxyConfigListeners(c, bound)
    \/ \E c \in TunnelConns : ReadTaskCleanup(c)
    \/ \E c \in TunnelConns : HandleClientCleanup(c)
    \/ \E c \in TunnelConns : WriteTaskError(c)
    \/ \E c \in TunnelConns : WriteTaskEnd(c)
    \/ \E p \in Ports : AcceptLoopCancel(p)
    \/ \E p \in Ports, script \in PublicScripts : AcceptLoopAccept(p, script)
    \/ \E p \in Ports : AcceptLoopNotify(p)

SpecReconfig == Init /\ [][NextReconfig]_vars

\* one session and the public connections to its listeners: Settle is
\* every step the server takes without a new public connection
Settle ==
    \/ \E c \in TunnelConns : Session(c, AuthReads, ConfigFrames)
    \/ \E p \in Ports : AcceptLoopCancel(p)
    \/ \E p \in Ports : AcceptLoopNotify(p)
    \/ \E s \in StreamIds : Public(s)

NextPublic ==
    \/ Settle
    \/ \E p \in Ports, script \in PublicScripts : AcceptLoopAccept(p, script)

SpecPublic == Init /\ [][NextPublic]_vars

\* the same, with accept loops whose accept() may fail
NextAccept ==
    \/ NextPublic
    \/ \E p \in Ports : AcceptLoopError(p)

SpecAccept == Init /\ [][NextAccept]_vars

\* an established session: the client of TunnelConns is registered and
\* its service's port is listening
TunnelClient == "k1"

TunnelPort == CHOOSE p \in Ports : \A q \in Ports : p <= q

\* a client that reconnects: every session authenticates with the same
\* client_id (Client::new draws it once)
ReconnectReads == { r \in AuthReads : r.message.client_id = TunnelClient }

\* its first connection configures the port and is then lost; the
\* connection it comes back on stays open and has not configured yet
ReconnectScript(c) ==
    IF c = 1
    THEN [frames |-> <<ProxyConfig(TunnelPort)>>, open |-> FALSE]
    ELSE NoScript

\* the connections are accepted one after the other
Reconnect(c, r) ==
    /\ \A d \in 1..(c - 1) : hc[d].pc # "none"
    /\ handle_client(c, r, TRUE, ReconnectScript(c))

NextReconnect ==
    \/ \E c \in Conn, r \in ReconnectReads : Reconnect(c, r)
    \/ \E c \in Conn : ReadTaskFrame(c)
    \/ \E c \in Conn, bound \in BOOLEAN : HandleProxyConfigListeners(c, bound)
    \/ \E c \in Conn : ReadTaskCleanup(c)
    \/ \E c \in Conn : HandleClientCleanup(c)
    \/ \E c \in Conn : WriteTaskEnd(c)
    \/ \E p \in Ports : AcceptLoopCancel(p)
    \/ \E p \in Ports, script \in PublicScripts : AcceptLoopAccept(p, script)
    \/ \E p \in Ports : AcceptLoopNotify(p)
    \/ \E s \in StreamIds : Public(s)

SpecReconnect == Init /\ [][NextReconnect]_vars

TunnelUp(active) ==
    LET c == CHOOSE x \in TunnelConns : TRUE
        proxy_id == FirstProxyId(c)
        key == SessionKeyFor(TunnelClient)
    IN
    /\ clients = Insert(<<>>, TunnelClient,
                        [conn |-> c, crypto |-> key,
                         proxies |-> {<<proxy_id, TunnelPort>>}])
    /\ proxy_listeners = Insert(<<>>, TunnelPort,
                                [client_id |-> TunnelClient,
                                 proxy_id |-> proxy_id])
    /\ proxy_connections = active
    /\ hc = [x \in Conn |->
               IF x = c
               THEN [pc |-> "select",
                     first |-> [kind |-> "frame",
                                message |-> Auth(sha256_with_salt(ConfigToken,
                                                                  MAGIC_SALT),
                                                 TunnelClient)],
                     client_id |-> TunnelClient]
               ELSE [pc |-> "none", first |-> NoRead, client_id |-> NoId]]
    /\ peer_open = [x \in Conn |-> TRUE]
    /\ sock_in = [x \in Conn |-> <<>>]
    /\ sock_out = [x \in Conn |->
                     IF x = c THEN <<AuthResponse(TRUE, Some(key), None)>>
                     ELSE <<>>]
    /\ chan = [x \in Conn |->
                 IF x = c
                 THEN <<ProxyConfigResponse(TRUE, Some(proxy_id), None)>>
                 ELSE <<>>]
    /\ read_task = [x \in Conn |->
                      IF x = c THEN [NoTask EXCEPT !.pc = "read"] ELSE NoTask]
    /\ write_task = [x \in Conn |-> IF x = c THEN "run" ELSE "none"]
    /\ next_proxy_id = [x \in Conn |-> IF x = c THEN proxy_id + 1 ELSE FirstProxyId(x)]
    /\ accept_loop = [p \in Ports |->
                        IF p = TunnelPort
                        THEN [NoLoop EXCEPT !.pc = "wait",
                                            !.client_id = TunnelClient,
                                            !.proxy_id = proxy_id]
                        ELSE NoLoop]
    /\ stream = [s \in StreamIds |-> NoStream]
    /\ stream_chan = [s \in StreamIds |-> <<>>]
    /\ pub = [s \in StreamIds |-> NoPub]
    /\ next_connection_id = 1
    /\ tunnel_read = 0
    /\ local_connections = {}
    /\ local = [s \in StreamIds |-> NoLocal]
    /\ local_chan = [s \in StreamIds |-> <<>>]
    /\ local_out = [s \in StreamIds |-> <<>>]
    /\ svc = [s \in StreamIds |-> NoSvc]
    /\ UnitsAtRest

InitTunnel == TunnelUp(<<>>)

\* another public connection of the same client, accepted earlier, whose
\* peers are silent: its engine waits in select! with both tasks blocked
IdleConnection == MaxStreams + 1

InitStreams ==
    TunnelUp(Insert(<<>>, IdleConnection, [client_id |-> TunnelClient]))

\* the relay of public connections through an established session, with
\* the client at the other end of the tunnel
NextTunnel ==
    \/ \E p \in Ports, script \in PublicScripts : AcceptLoopAccept(p, script)
    \/ \E p \in Ports : AcceptLoopNotify(p)
    \/ \E s \in StreamIds : Public(s)
    \/ \E c \in TunnelConns : ReadTaskFrame(c)
    \/ \E s \in StreamIds, wok \in BOOLEAN : StreamWrite(s, wok)
    \/ \E c \in TunnelConns, connected \in BOOLEAN, script \in ServiceScripts :
          handle_server_message(c, connected, script)
    \/ \E s \in StreamIds : LocalInsert(s)
    \/ \E c \in TunnelConns, s \in StreamIds, n \in 1..MaxBytes :
          LocalReadData(c, s, n)
    \/ \E c \in TunnelConns, s \in StreamIds : LocalReadEof(c, s)
    \/ \E s \in StreamIds : LocalWrite(s)
    \/ \E s \in StreamIds : LocalWriteEnd(s)
    \/ \E s \in StreamIds : LocalSelect(s)

SpecTunnel == InitTunnel /\ [][NextTunnel]_vars

\* a second client with the valid token, on the other control connection
OtherClient == CHOOSE k \in ClientIds : k # TunnelClient

OtherConn == CHOOSE c \in Conn : c \notin TunnelConns

OtherRead == CHOOSE r \in AuthReads : r.message.client_id = OtherClient

\* after its Auth it sends one Data frame that names a connection_id
OtherScripts ==
    { [frames |-> <<Data(s, <<66>>)>>, open |-> o] :
        s \in StreamIds, o \in BOOLEAN }

OtherSession(script) == handle_client(OtherConn, OtherRead, TRUE, script)

\* public connections relayed to the established session of TunnelClient
\* while OtherClient has a session of its own
NextIsolation ==
    \/ \E script \in OtherScripts : OtherSession(script)
    \/ \E c \in Conn : ReadTaskFrame(c)
    \/ \E p \in Ports, script \in PublicScripts : AcceptLoopAccept(p, script)
    \/ \E p \in Ports : AcceptLoopNotify(p)
    \/ \E s \in StreamIds : Public(s)
    \/ \E s \in StreamIds, wok \in BOOLEAN : StreamWrite(s, wok)

SpecIsolation == InitTunnel /\ [][NextIsolation]_vars

\* the same relay next to an idle connection of the same client
SpecStreams == InitStreams /\ [][NextTunnel]_vars

\* the same relay where every spawned task and every loop that can take a
\* step is eventually scheduled; only the arrival of public connections is
\* left to the environment
FairTunnel ==
    /\ SpecTunnel
    /\ \A p \in Ports : WF_vars(AcceptLoopNotify(p))
    /\ \A s \in StreamIds :
          /\ WF_vars(Public(s))
          /\ WF_vars(\E wok \in BOOLEAN : StreamWrite(s, wok))
          /\ WF_vars(LocalInsert(s))
          /\ WF_vars(LocalWrite(s))
          /\ WF_vars(LocalWriteEnd(s))
          /\ WF_vars(LocalSelect(s))
          /\ \A c \in TunnelConns :
                /\ WF_vars(\E n \in 1..MaxBytes : LocalReadData(c, s, n))
                /\ WF_vars(LocalReadEof(c, s))
    /\ \A c \in TunnelConns :
          /\ WF_vars(ReadTaskFrame(c))
          /\ WF_vars(\E connected \in BOOLEAN, script \in ServiceScripts :
                       handle_server_message(c, connected, script))

\* ------------------------------------------- Client::connect_to_server
\* attempts of one supervisor that are told apart
MaxAttempts == 3

\* the address of the one configured server
ServerAddr == "server:7000"

\* the service lists a client may be configured with
ServiceLists == SeqsUpTo(ConfigFrames, Cardinality(Ports))

\* outcome of the client's one read after its Auth: the same kinds as for
\* the server's first read, and the frames a server may answer with
AuthReplies ==
    { [kind |-> k] : k \in {"timeout", "eof", "error", "malformed", "partial"} }
    \cup { [kind |-> "frame", message |-> AuthResponse(ok, key, err)] :
             ok \in BOOLEAN,
             key \in {None, Some(derive_session_key(ConfigToken, TunnelClient)),
                      Some(<<>>)},
             err \in {None, Some(ErrInvalidToken)} }
    \cup { [kind |-> "frame", message |-> m] :
             m \in {HeartbeatResponse(1), ProxyConfigResponse(TRUE, Some(1), None)} }

\* variant: the success flag of the AuthResponse is not looked at
AuthResponseAcceptedUnflagged(r) ==
    /\ r.kind = "frame"
    /\ r.message.type = "AuthResponse"
    /\ r.message.session_key # None
    /\ CryptoContextNewOk(r.message.session_key[1])

\* the match on the first frame yields a CryptoContext: an AuthResponse
\* with success, a session key, and CryptoContext::new accepting the key
AuthResponseAccepted(r) ==
    /\ r.kind = "frame"
    /\ r.message.type = "AuthResponse"
    /\ r.message.success
    /\ r.message.session_key # None
    /\ CryptoContextNewOk(r.message.session_key[1])

\* variant: an Err of try_connect_to_server is propagated with ?
AfterAttemptPropagated(result) == IF result = "Ok" THEN "sleep" ELSE "returned"

\* the loop of connect_to_server: both arms of the match log and fall
\* through to the sleep
AfterAttempt(result) == "sleep"

\* try_connect_to_server returns: the attempt is over
AttemptEnds(result, why) ==
    supervisor' = [supervisor EXCEPT !.pc = AfterAttempt(result),
                                     !.result = result, !.why = why]

\* Client::run has parsed the services and spawned connect_to_server
InitClient ==
    /\ ServerAtRest
    /\ services \in ServiceLists
    /\ connections = {}
    /\ supervisor = [pc |-> "connect", attempt |-> 1, first |-> NoRead,
                     wrote |-> <<>>, result |-> "none", why |-> "none"]
    /\ codec = NoCodec
    /\ reader = NoReader
    /\ crypto = NoCrypto
    /\ parser = NoParser
    /\ LinksAtRest

\* TcpStream::connect
SupervisorConnect(ok) ==
    /\ supervisor.pc = "connect"
    /\ IF ok
       THEN supervisor' = [supervisor EXCEPT !.pc = "auth"]
       ELSE AttemptEnds("Err", "connect")
    /\ UNCHANGED <<tunnelVars, connections, services, codec, reader, crypto, parser, linkVars>>

\* write_all of the Auth frame
SupervisorAuth(wok) ==
    /\ supervisor.pc = "auth"
    /\ IF wok
       THEN supervisor' =
              [supervisor EXCEPT
                 !.pc = "first_read",
                 !.wrote = <<Auth(sha256_with_salt(ConfigToken, MAGIC_SALT),
                                  TunnelClient)>>]
       ELSE AttemptEnds("Err", "write")
    /\ UNCHANGED <<tunnelVars, connections, services, codec, reader, crypto, parser, linkVars>>

\* the read of the authentication response, under its 30 s timeout, and
\* the match on the frame it yields
SupervisorFirstRead(r) ==
    /\ supervisor.pc = "first_read"
    /\ IF AuthResponseAccepted(r)
       THEN supervisor' = [supervisor EXCEPT !.pc = "configs", !.first = r]
       ELSE supervisor' = [supervisor EXCEPT !.pc = AfterAttempt("Err"),
                                             !.result = "Err",
                                             !.why = "handshake",
                                             !.first = r]
    /\ UNCHANGED <<tunnelVars, connections, services, codec, reader, crypto, parser, linkVars>>

\* the ProxyConfig frames this attempt has written
ConfigsWritten == SubSeq(supervisor.wrote, 2, Len(supervisor.wrote))

\* one turn of the loop over service_configs: write_all of a ProxyConfig
SupervisorSendConfig(wok) ==
    /\ supervisor.pc = "configs"
    /\ Len(ConfigsWritten) < Len(services)
    /\ IF wok
       THEN supervisor' =
              [supervisor EXCEPT
                 !.wrote = Append(@, services[Len(ConfigsWritten) + 1])]
       ELSE AttemptEnds("Err", "write")
    /\ UNCHANGED <<tunnelVars, connections, services, codec, reader, crypto, parser, linkVars>>

\* the loop is over: insert the ServerLink and spawn the heartbeat task,
\* read_task and write_task
SupervisorStore ==
    /\ supervisor.pc = "configs"
    /\ Len(ConfigsWritten) = Len(services)
    /\ connections' = connections \cup {ServerAddr}
    /\ supervisor' = [supervisor EXCEPT !.pc = "session"]
    /\ UNCHANGED <<tunnelVars, services, codec, reader, crypto, parser, linkVars>>

\* what ends a session: read_task (EOF or a read error), write_task (a
\* write error) or the heartbeat task
SessionEnds == {"eof", "read_error", "write_error", "heartbeat"}

\* select! returns: remove the ServerLink, Ok(())
SupervisorSessionEnd(why) ==
    /\ supervisor.pc = "session"
    /\ connections' = connections \ {ServerAddr}
    /\ AttemptEnds("Ok", why)
    /\ UNCHANGED <<tunnelVars, services, codec, reader, crypto, parser, linkVars>>

\* reconnect_interval has passed: the next turn of the loop
SupervisorSleep ==
    /\ supervisor.pc = "sleep"
    /\ supervisor' = [pc |-> "connect",
                      attempt |-> IF supervisor.attempt < MaxAttempts
                                  THEN supervisor.attempt + 1
                                  ELSE supervisor.attempt,
                      first |-> NoRead, wrote |-> <<>>, result |-> "none",
                      why |-> "none"]
    /\ UNCHANGED <<tunnelVars, connections, services, codec, reader, crypto, parser, linkVars>>

NextClient ==
    \/ \E ok \in BOOLEAN : SupervisorConnect(ok)
    \/ \E wok \in BOOLEAN : SupervisorAuth(wok)
    \/ \E r \in AuthReplies : SupervisorFirstRead(r)
    \/ \E wok \in BOOLEAN : SupervisorSendConfig(wok)
    \/ SupervisorStore
    \/ \E why \in SessionEnds : SupervisorSessionEnd(why)
    \/ SupervisorSleep

SpecClient == InitClient /\ [][NextClient]_vars

\* the timer of the sleep fires
FairClient == SpecClient /\ WF_vars(SupervisorSleep)

\* ----------------------------------------------- Frame (protocol.rs)
\* Strings and Vec<u8> are byte sequences here; integers are encoded as by
\* bincode's standard configuration (little endian, variable length)
Fail == [ok |-> FALSE]

\* u16, u32, u64, usize and enum variant indices: one byte below 251, else
\* a marker byte and the value in 2 or 4 bytes, little endian
EncVarint(n) ==
    IF n < 251 THEN <<n>>
    ELSE IF n < 65536 THEN <<251, n % 256, n \div 256>>
    ELSE <<252, n % 256, (n \div 256) % 256, (n \div 65536) % 256,
           n \div 16777216>>

DecVarint(b) ==
    IF b = <<>> THEN Fail
    ELSE IF b[1] < 251
         THEN [ok |-> TRUE, value |-> b[1], rest |-> Tail(b)]
    ELSE IF b[1] = 251 /\ Len(b) >= 3
         THEN [ok |-> TRUE, value |-> b[2] + 256 * b[3],
               rest |-> SubSeq(b, 4, Len(b))]
    ELSE IF b[1] = 252 /\ Len(b) >= 5
         THEN [ok |-> TRUE,
               value |-> b[2] + 256 * b[3] + 65536 * b[4] + 16777216 * b[5],
               rest |-> SubSeq(b, 6, Len(b))]
    ELSE Fail

\* String and Vec<u8>: the length, then the bytes
EncBytes(x) == EncVarint(Len(x)) \o x

DecBytes(b) ==
    LET n == DecVarint(b) IN
    IF ~n.ok THEN Fail
    ELSE IF Len(n.rest) < n.value THEN Fail
    ELSE [ok |-> TRUE, value |-> SubSeq(n.rest, 1, n.value),
          rest |-> SubSeq(n.rest, n.value + 1, Len(n.rest))]

EncBool(x) == IF x THEN <<1>> ELSE <<0>>

DecBool(b) ==
    IF b = <<>> \/ b[1] > 1 THEN Fail
    ELSE [ok |-> TRUE, value |-> (b[1] = 1), rest |-> Tail(b)]

\* Option<String>: a tag byte, then the value of Some
EncOption(x) == IF x = None THEN <<0>> ELSE <<1>> \o EncBytes(x[1])

DecOption(b) ==
    IF b = <<>> \/ b[1] > 1 THEN Fail
    ELSE IF b[1] = 0 THEN [ok |-> TRUE, value |-> None, rest |-> Tail(b)]
    ELSE LET x == DecBytes(Tail(b)) IN
         IF ~x.ok THEN Fail
         ELSE [ok |-> TRUE, value |-> Some(x.value), rest |-> x.rest]

\* the index of a variant in enum Message
VariantIndex(type) ==
    CASE type = "ProxyConfigResponse" -> 3
      [] type = "Heartbeat" -> 4
      [] type = "HeartbeatResponse" -> 5
      [] type = "NewConnection" -> 6
      [] type = "Data" -> 8
      [] type = "CloseConnection" -> 9

\* bincode::encode_to_vec(&message, standard())
encode_to_vec(m) ==
    EncVarint(VariantIndex(m.type)) \o
    CASE m.type = "ProxyConfigResponse" ->
           EncBool(m.success) \o EncOption(m.proxy_id) \o EncOption(m.error)
      [] m.type \in {"Heartbeat", "HeartbeatResponse"} -> EncVarint(m.timestamp)
      [] m.type = "NewConnection" ->
           EncBytes(m.proxy_id) \o EncBytes(m.connection_id)
      [] m.type = "Data" -> EncBytes(m.connection_id) \o EncBytes(m.data)
      [] m.type = "CloseConnection" -> EncBytes(m.connection_id)

DecProxyConfigResponse(b) ==
    LET ok == DecBool(b) IN
    IF ~ok.ok THEN Fail
    ELSE LET pid == DecOption(ok.rest) IN
    IF ~pid.ok THEN Fail
    ELSE LET err == DecOption(pid.rest) IN
    IF ~err.ok THEN Fail
    ELSE [ok |-> TRUE,
          value |-> ProxyConfigResponse(ok.value, pid.value, err.value)]

DecTimestamp(b, heartbeat) ==
    LET ts == DecVarint(b) IN
    IF ~ts.ok THEN Fail
    ELSE [ok |-> TRUE,
          value |-> IF heartbeat THEN Heartbeat(ts.value)
                    ELSE HeartbeatResponse(ts.value)]

DecNewConnection(b) ==
    LET pid == DecBytes(b) IN
    IF ~pid.ok THEN Fail
    ELSE LET sid == DecBytes(pid.rest) IN
    IF ~sid.ok THEN Fail
    ELSE [ok |-> TRUE, value |-> NewConnection(pid.value, sid.value)]

DecData(b) ==
    LET sid == DecBytes(b) IN
    IF ~sid.ok THEN Fail
    ELSE LET data == DecBytes(sid.rest) IN
    IF ~data.ok THEN Fail
    ELSE [ok |-> TRUE, value |-> Data(sid.value, data.value)]

DecCloseConnection(b) ==
    LET sid == DecBytes(b) IN
    IF ~sid.ok THEN Fail
    ELSE [ok |-> TRUE, value |-> CloseConnection(sid.value)]

\* bincode::decode_from_slice(message_data, standard()); bytes left over
\* after the message are not an error
decode_from_slice(b) ==
    LET tag == DecVarint(b) IN
    IF ~tag.ok THEN Fail
    ELSE CASE tag.value = 3 -> DecProxyConfigResponse(tag.rest)
           [] tag.value = 4 -> DecTimestamp(tag.rest, TRUE)
           [] tag.value = 5 -> DecTimestamp(tag.rest, FALSE)
           [] tag.value = 6 -> DecNewConnection(tag.rest)
           [] tag.value = 8 -> DecData(tag.rest)
           [] tag.value = 9 -> DecCloseConnection(tag.rest)
           [] OTHER -> Fail

\* u32::to_be_bytes and u32::from_be_bytes
to_be_bytes(n) ==
    <<n \div 16777216, (n \div 65536) % 256, (n \div 256) % 256, n % 256>>

from_be_bytes(b) == 16777216 * b[1] + 65536 * b[2] + 256 * b[3] + b[4]

\* variant: the length field counts its own four bytes too
FrameLengthWithPrefix(message_data) == Len(message_data) + 4

\* message_data.len() as u32 (the payloads here are far below 2^32 bytes,
\* where the cast changes nothing)
FrameLength(message_data) == Len(message_data)

\* Frame::serialize
serialize(m) ==
    LET message_data == encode_to_vec(m) IN
    to_be_bytes(FrameLength(message_data)) \o message_data

\* Frame::deserialize: Err, or the frame and the number of bytes consumed
deserialize(data) ==
    IF Len(data) < 4 THEN Fail
    ELSE LET length == from_be_bytes(SubSeq(data, 1, 4)) IN
    IF Len(data) < 4 + length THEN Fail
    ELSE LET d == decode_from_slice(SubSeq(data, 5, 4 + length)) IN
    IF ~d.ok THEN Fail
    ELSE [ok |-> TRUE, length |-> length, message |-> d.value,
          consumed |-> 4 + length]

\* byte strings used as ids and error texts, and as payload of Data
CodecStrings == {<<99>>, <<99, 49>>}

CodecPayloads == SeqsUpTo({0, 127, 255}, MaxBytes)

\* timestamps at the borders of the integer encoding
CodecTimestamps == {0, 250, 251, 65535, 65536}

CodecMessages ==
    { Heartbeat(ts) : ts \in CodecTimestamps }
    \cup { HeartbeatResponse(ts) : ts \in CodecTimestamps }
    \cup { NewConnection(pid, sid) : pid \in CodecStrings, sid \in CodecStrings }
    \cup { Data(sid, d) : sid \in CodecStrings, d \in CodecPayloads }
    \cup { CloseConnection(sid) : sid \in CodecStrings }
    \cup { ProxyConfigResponse(ok, pid, err) :
             ok \in BOOLEAN,
             pid \in {None} \cup { Some(x) : x \in CodecStrings },
             err \in {None} \cup { Some(x) : x \in CodecStrings } }

\* Frame::new(message)
InitCodec ==
    /\ ServerAtRest
    /\ SupervisorAtRest
    /\ codec \in { [pc |-> "new", message |-> m, bytes |-> <<>>,
                    result |-> Fail] : m \in CodecMessages }
    /\ reader = NoReader
    /\ crypto = NoCrypto
    /\ parser = NoParser
    /\ LinksAtRest

FrameSerialize ==
    /\ codec.pc = "new"
    /\ codec' = [codec EXCEPT !.pc = "serialized",
                              !.bytes = serialize(codec.message)]
    /\ UNCHANGED <<tunnelVars, supervisorVars, reader, crypto, parser, linkVars>>

FrameDeserialize ==
    /\ codec.pc = "serialized"
    /\ codec' = [codec EXCEPT !.pc = "deserialized",
                              !.result = deserialize(codec.bytes)]
    /\ UNCHANGED <<tunnelVars, supervisorVars, reader, crypto, parser, linkVars>>

NextCodec == FrameSerialize \/ FrameDeserialize

SpecCodec == InitCodec /\ [][NextCodec]_vars

\* ------------------------------------------ FrameReader (frame_reader.rs)
\* frames written back to back into one byte stream
MaxWire == 2

ReaderMessages ==
    {Heartbeat(1), CloseConnection(<<99>>), Data(<<99>>, <<0, 127>>)}

\* the concatenation of the serialized frames of the messages in q
RECURSIVE Wire(_)
Wire(q) == IF q = <<>> THEN <<>> ELSE serialize(Head(q)) \o Wire(Tail(q))

\* FrameReader::new, and a stream of frames yet to arrive
InitReader ==
    /\ ServerAtRest
    /\ SupervisorAtRest
    /\ codec = NoCodec
    /\ reader \in { [pc |-> "feed", buffer |-> <<>>, sent |-> q,
                     pending |-> Wire(q), frames |-> <<>>] :
                      q \in SeqsUpTo(ReaderMessages, MaxWire) }
    /\ crypto = NoCrypto
    /\ parser = NoParser
    /\ LinksAtRest

\* feed_data with the next n bytes of the stream, once the frames of the
\* bytes fed before have been taken out
feed_data(n) ==
    /\ reader.pc = "feed"
    /\ n \in 1..Len(reader.pending)
    /\ reader' = [reader EXCEPT
                    !.pc = "drain",
                    !.buffer = @ \o SubSeq(reader.pending, 1, n),
                    !.pending = SubSeq(@, n + 1, Len(@))]
    /\ UNCHANGED <<tunnelVars, supervisorVars, codec, crypto, parser, linkVars>>

\* the two length tests of try_read_frame
FrameAvailable(buffer) ==
    /\ Len(buffer) >= 4
    /\ Len(buffer) >= 4 + from_be_bytes(SubSeq(buffer, 1, 4))

\* variant: the length field alone is taken out of the buffer
BufferAfterFrameKeepsPayload(buffer, length) ==
    SubSeq(buffer, 4 + 1, Len(buffer))

\* variant: the buffer is emptied (FrameReader::clear) after a frame
BufferAfterClear(buffer, length) == <<>>

\* buffer.drain(..4 + length)
BufferAfterFrame(buffer, length) ==
    SubSeq(buffer, 4 + length + 1, Len(buffer))

\* try_read_frame: Ok(None), Ok(Some(frame)) or Err
try_read_frame ==
    /\ reader.pc = "drain"
    /\ IF ~FrameAvailable(reader.buffer)
       THEN reader' = [reader EXCEPT !.pc = "feed"]
       ELSE LET length == from_be_bytes(SubSeq(reader.buffer, 1, 4))
                r == deserialize(SubSeq(reader.buffer, 1, 4 + length))
            IN
            IF r.ok
            THEN reader' = [reader EXCEPT
                              !.frames = Append(@, r.message),
                              !.buffer = BufferAfterFrame(@, length)]
            ELSE reader' = [reader EXCEPT !.pc = "error"]
    /\ UNCHANGED <<tunnelVars, supervisorVars, codec, crypto, parser, linkVars>>

NextReader ==
    \/ \E n \in 1..Len(reader.pending) : feed_data(n)
    \/ try_read_frame

SpecReader == InitReader /\ [][NextReader]_vars

\* a frame whose payload is complete but is no message: the enum tag 200
\* names no variant of Message
BadFrame == to_be_bytes(1) \o <<200>>

\* byte streams of frames written back to back, decodable or not
RawFrames == { serialize(m) : m \in ReaderMessages } \cup {BadFrame}

RECURSIVE Concat(_)
Concat(q) == IF q = <<>> THEN <<>> ELSE Head(q) \o Concat(Tail(q))

\* FrameReader::new, and a stream of bytes yet to arrive from a peer that
\* may also send frames that do not decode
InitRawReader ==
    /\ ServerAtRest
    /\ SupervisorAtRest
    /\ codec = NoCodec
    /\ reader \in { [pc |-> "feed", buffer |-> <<>>, sent |-> <<>>,
                     pending |-> Concat(q), frames |-> <<>>] :
                      q \in SeqsUpTo(RawFrames, MaxWire) }
    /\ crypto = NoCrypto
    /\ parser = NoParser
    /\ LinksAtRest

SpecRawReader == InitRawReader /\ [][NextReader]_vars

\* ------------------------------------------- CryptoContext (crypto.rs)
\* length of the nonce put in front of every ciphertext
NonceLen == 12

\* rand::rng().fill_bytes: the nonces that may be drawn
Nonces == { [i \in 1..NonceLen |-> <<"nonce", r, i>>] : r \in 1..2 }

\* AES-256-GCM as an ideal AEAD: the ciphertext is as long as the data and
\* is followed by a 16-byte tag; both are bound to key, nonce and data
AeadEncrypt(key, nonce, data) ==
    [i \in 1..Len(data) |-> <<"ct", key, nonce, i, data[i]>>]
    \o [j \in 1..16 |-> <<"tag", key, nonce, data, j, 0>>]

\* what the ciphertext bytes would decrypt to
AeadPlain(body) ==
    [i \in 1..Len(body) |-> IF Len(body[i]) = 5 THEN body[i][5] ELSE 0]

\* decryption fails unless the input is a ciphertext and tag made under
\* the same key and nonce
AeadDecrypt(key, nonce, ciphertext) ==
    IF Len(ciphertext) < 16 THEN Fail
    ELSE LET data == AeadPlain(SubSeq(ciphertext, 1, Len(ciphertext) - 16)) IN
         IF ciphertext = AeadEncrypt(key, nonce, data)
         THEN [ok |-> TRUE, value |-> data]
         ELSE Fail

\* variant: the nonce is put after the ciphertext
encryptNonceLast(key, nonce, data) == AeadEncrypt(key, nonce, data) \o nonce

\* CryptoContext::encrypt: nonce || ciphertext
encrypt(key, nonce, data) == nonce \o AeadEncrypt(key, nonce, data)

\* CryptoContext::decrypt
decrypt(key, encrypted_data) ==
    IF Len(encrypted_data) < 12 THEN Fail
    ELSE AeadDecrypt(key, SubSeq(encrypted_data, 1, 12),
                     SubSeq(encrypted_data, 12 + 1, Len(encrypted_data)))

\* keys handed to CryptoContext::new: session keys from derive_session_key,
\* and keys that are too short or too long
SessionKeys ==
    LET good == { derive_session_key(ConfigToken, k) : k \in ClientIds } IN
    good
    \cup { SubSeq(key, 1, n) : key \in good, n \in {0, 16, 31} }
    \cup { key \o <<key[1]>> : key \in good }

InitCrypto ==
    /\ ServerAtRest
    /\ SupervisorAtRest
    /\ codec = NoCodec
    /\ reader = NoReader
    /\ crypto \in { [pc |-> "new", key |-> key, data |-> d,
                     encrypted |-> <<>>, fed |-> 0, result |-> Fail] :
                      key \in SessionKeys, d \in SeqsUpTo({0, 255}, MaxBytes) }
    /\ parser = NoParser
    /\ LinksAtRest

\* CryptoContext::new
CryptoNew ==
    /\ crypto.pc = "new"
    /\ crypto' = [crypto EXCEPT
                    !.pc = IF CryptoContextNewOk(crypto.key)
                           THEN "context" ELSE "failed"]
    /\ UNCHANGED <<tunnelVars, supervisorVars, codec, reader, parser, linkVars>>

CryptoEncrypt(nonce) ==
    /\ crypto.pc = "context"
    /\ crypto' = [crypto EXCEPT
                    !.pc = "encrypted",
                    !.encrypted = encrypt(crypto.key, nonce, crypto.data)]
    /\ UNCHANGED <<tunnelVars, supervisorVars, codec, reader, parser, linkVars>>

\* decrypt is handed the first n bytes of what encrypt returned
CryptoDecrypt(n) ==
    /\ crypto.pc = "encrypted"
    /\ n \in 0..Len(crypto.encrypted)
    /\ crypto' = [crypto EXCEPT
                    !.pc = "decrypted",
                    !.fed = n,
                    !.result = decrypt(crypto.key,
                                       SubSeq(crypto.encrypted, 1, n))]
    /\ UNCHANGED <<tunnelVars, supervisorVars, codec, reader, parser, linkVars>>

NextCrypto ==
    \/ CryptoNew
    \/ \E nonce \in Nonces : CryptoEncrypt(nonce)
    \/ \E n \in 0..(NonceLen + MaxBytes + 16) : CryptoDecrypt(n)

SpecCrypto == InitCrypto /\ [][NextCrypto]_vars

\* ------------------------------------------- ServiceConfig (config.rs)
\* strings are sequences of characters; the decimal digits in order
Digit == <<"0", "1", "2", "3", "4", "5", "6", "7", "8", "9">>

DigitChars == Range(Digit)

\* char::to_digit(10)
to_digit(ch) == (CHOOSE i \in DOMAIN Digit : Digit[i] = ch) - 1

\* u16::MAX
U16Max == 65535

\* str::split(':'): the fields between the colons, at least one
RECURSIVE split(_)
split(str) ==
    IF \A i \in DOMAIN str : str[i] # ":"
    THEN <<str>>
    ELSE LET i == CHOOSE j \in DOMAIN str :
                    /\ str[j] = ":"
                    /\ \A h \in 1..(j - 1) : str[h] # ":"
         IN <<SubSeq(str, 1, i - 1)>> \o split(SubSeq(str, i + 1, Len(str)))

\* the digit loop of from_str_radix: checked multiply and add
RECURSIVE ParseDigits(_, _)
ParseDigits(digits, acc) ==
    IF digits = <<>> THEN Some(acc)
    ELSE IF Head(digits) \notin DigitChars THEN None
    ELSE LET next == acc * 10 + to_digit(Head(digits)) IN
         IF next > U16Max THEN None ELSE ParseDigits(Tail(digits), next)

\* variant: the value wraps around at 2^16 instead of overflowing
RECURSIVE ParseDigitsWrapping(_, _)
ParseDigitsWrapping(digits, acc) ==
    IF digits = <<>> THEN Some(acc)
    ELSE IF Head(digits) \notin DigitChars THEN None
    ELSE LET next == acc * 10 + to_digit(Head(digits)) IN
         ParseDigitsWrapping(Tail(digits), next % (U16Max + 1))

\* variant: str::parse::<u16>() without the overflow check
ParseU16Wrapping(src) ==
    IF src = <<>> THEN None
    ELSE IF src \in {<<"+">>, <<"-">>} THEN None
    ELSE ParseDigitsWrapping(IF Head(src) = "+" THEN Tail(src) ELSE src, 0)

\* str::parse::<u16>(): Err on the empty string, on a lone sign, on any
\* character that is no digit (a leading '+' is skipped) and on overflow
ParseU16(src) ==
    IF src = <<>> THEN None
    ELSE IF src \in {<<"+">>, <<"-">>} THEN None
    ELSE ParseDigits(IF Head(src) = "+" THEN Tail(src) ELSE src, 0)

\* Err(..) and Ok(ServiceConfig)
ParseError == [ok |-> FALSE]

ParseOk(config) == [ok |-> TRUE, config |-> config]

\* ServiceConfig::parse
parse(service_str) ==
    LET parts == split(service_str) IN
    IF Len(parts) # 3 THEN ParseError
    ELSE LET local_port == ParseU16(parts[2])
             remote_port == ParseU16(parts[3])
         IN
         IF local_port = None \/ remote_port = None THEN ParseError
         ELSE ParseOk([name |-> service_str, local_ip |-> parts[1],
                       local_port |-> local_port[1],
                       remote_port |-> remote_port[1]])

\* ServiceConfig::parse_cli
parse_cli(service_str) ==
    LET parts == split(service_str) IN
    IF Len(parts) # 3 THEN ParseError
    ELSE LET local_port == ParseU16(parts[2])
             remote_port == ParseU16(parts[3])
         IN
         IF local_port = None \/ remote_port = None THEN ParseError
         ELSE ParseOk([name |-> service_str, local_ip |-> parts[1],
                       local_port |-> local_port[1],
                       remote_port |-> remote_port[1]])

\* fields a service string is put together from: empty, a host name,
\* numbers with and without sign and leading zero, the largest u16 and its
\* successor, and a number with a letter in it
ServiceFields ==
    { <<>>, <<"h">>, <<"8", "0">>, <<"+", "8", "0">>, <<"0", "8", "0">>,
      <<"-", "1">>, <<"6", "5", "5", "3", "5">>, <<"6", "5", "5", "3", "6">>,
      <<"8", "o">>, <<"+">> }

\* fields of one service string
MaxFields == 4

RECURSIVE Joined(_)
Joined(fields) ==
    IF Len(fields) = 1 THEN fields[1]
    ELSE fields[1] \o <<":">> \o Joined(Tail(fields))

ServiceStrings ==
    { Joined(fields) :
        fields \in UNION { [1..n -> ServiceFields] : n \in 1..MaxFields } }

InitService ==
    /\ ServerAtRest
    /\ SupervisorAtRest
    /\ codec = NoCodec
    /\ reader = NoReader
    /\ crypto = NoCrypto
    /\ parser \in { [pc |-> "new", service_str |-> str, result |-> ParseError,
                     cli_result |-> ParseError] : str \in ServiceStrings }
    /\ LinksAtRest

\* Client::run parses the service string of the configuration
ServiceParse ==
    /\ parser.pc = "new"
    /\ parser' = [parser EXCEPT !.pc = "parsed",
                                !.result = parse(parser.service_str)]
    /\ UNCHANGED <<tunnelVars, supervisorVars, codec, reader, crypto, linkVars>>

\* the command line parses the same string given as --service
ServiceParseCli ==
    /\ parser.pc = "parsed"
    /\ parser' = [parser EXCEPT !.pc = "both",
                                !.cli_result = parse_cli(parser.service_str)]
    /\ UNCHANGED <<tunnelVars, supervisorVars, codec, reader, crypto, linkVars>>

NextService ==
    \/ ServiceParse
    \/ ServiceParseCli

SpecService == InitService /\ [][NextService]_vars

\* ------------------------------- Client: sessions to one server address
\* the ServerLink stored under server_addr, if any
Link(n, connected) == [session |-> n, connected |-> connected]

\* conn.sender.send(m) on the link found under server_addr: Ok iff the
\* write_task of the session that stored the link still holds rx
LinkSendOk == session[links[1].session].write_task # "done"

LinkSent(m) ==
    IF links # None /\ LinkSendOk
    THEN [outbound EXCEPT ![links[1].session] = Append(@, m)]
    ELSE outbound

\* service lists of a client with at least one service
LinkServiceLists == { q \in ServiceLists : q # <<>> }

\* Client::run has parsed the services; connect_to_server is about to
\* make its first attempt
InitLinks ==
    /\ ServerAtRest
    /\ supervisor = NoSupervisor
    /\ connections = {}
    /\ services \in LinkServiceLists
    /\ codec = NoCodec
    /\ reader = NoReader
    /\ crypto = NoCrypto
    /\ parser = NoParser
    /\ LinksAtRest

\* try_connect_to_server of attempt n, handshake done: insert the
\* ServerLink under server_addr and spawn the heartbeat task, read_task
\* and write_task.  connect_to_server makes its attempts one after the
\* other.
LinkStore(n) ==
    /\ session[n].pc = "none"
    /\ \A m \in 1..(n - 1) : session[m].pc = "done"
    /\ links' = Some(Link(n, TRUE))
    /\ session' = [session EXCEPT ![n] = [pc |-> "select", heartbeat |-> "run",
                                          read_task |-> "run",
                                          write_task |-> "run", beats |-> 0]]
    /\ UNCHANGED <<tunnelVars, supervisorVars, codec, reader, crypto, parser,
                   outbound, lstream>>

\* heartbeat task of session n, one tick: look the link up under
\* server_addr; send a Heartbeat if it is there and connected, else break
LinkHeartbeat(n) ==
    /\ session[n].heartbeat = "run"
    /\ session[n].beats < MaxBeats
    /\ IF links # None /\ links[1].connected /\ LinkSendOk
       THEN /\ outbound' = LinkSent(Heartbeat(session[n].beats + 1))
            /\ session' = [session EXCEPT ![n].beats = @ + 1]
       ELSE /\ session' = [session EXCEPT ![n].heartbeat = "done"]
            /\ outbound' = outbound
    /\ UNCHANGED <<tunnelVars, supervisorVars, codec, reader, crypto, parser,
                   links, lstream>>

\* the service the NewConnection arm connects to: service_configs.first()
FirstService(proxy) == 1

\* read_task of session n handles NewConnection{proxy_id of service i,
\* connection_id s}: connect to the local service, answer with
\* ConnectionResponse on the link under server_addr, and on success
\* handle_local_connection registers s and spawns its tasks
LinkNewConnection(n, i, s, ok) ==
    /\ session[n].read_task = "run"
    /\ i \in 1..Len(services)
    /\ lstream[s].session = 0
    /\ \A t \in 1..(s - 1) : lstream[t].session # 0
    /\ outbound' = LinkSent(ConnectionResponse(s, ok))
    /\ lstream' = [lstream EXCEPT
                     ![s] = [session |-> n, proxy |-> i,
                             service |-> FirstService(i),
                             read_task |-> IF ok THEN "run" ELSE "none",
                             registered |-> ok, sent |-> 0]]
    /\ UNCHANGED <<tunnelVars, supervisorVars, codec, reader, crypto, parser,
                   links, session>>

\* read_task of session n handles CloseConnection{s}: remove s from the
\* local connection table
LinkCloseConnection(n, s) ==
    /\ session[n].read_task = "run"
    /\ lstream[s].session = n
    /\ lstream[s].registered
    /\ lstream' = [lstream EXCEPT ![s].registered = FALSE]
    /\ UNCHANGED <<tunnelVars, supervisorVars, codec, reader, crypto, parser,
                   links, session, outbound>>

\* read_task has left its loop: whatever link is under server_addr is
\* marked disconnected
LinkAfterReadEnd ==
    IF links # None THEN Some(Link(links[1].session, FALSE)) ELSE links

\* read_task of session n reads Ok(0) or Err: leave the loop
LinkReadEnd(n) ==
    /\ session[n].read_task = "run"
    /\ links' = LinkAfterReadEnd
    /\ session' = [session EXCEPT ![n].read_task = "done"]
    /\ UNCHANGED <<tunnelVars, supervisorVars, codec, reader, crypto, parser,
                   outbound, lstream>>

\* write_task of session n: write_all of a queued message returns Err
LinkWriteError(n) ==
    /\ session[n].write_task = "run"
    /\ outbound[n] # <<>>
    /\ session' = [session EXCEPT ![n].write_task = "done"]
    /\ UNCHANGED <<tunnelVars, supervisorVars, codec, reader, crypto, parser,
                   links, outbound, lstream>>

\* write_task of session n: rx.recv() yields None once the link holding
\* its sender has been removed or replaced
LinkWriteEnd(n) ==
    /\ session[n].write_task = "run"
    /\ IF links = None THEN TRUE ELSE links[1].session # n
    /\ session' = [session EXCEPT ![n].write_task = "done"]
    /\ UNCHANGED <<tunnelVars, supervisorVars, codec, reader, crypto, parser,
                   links, outbound, lstream>>

\* select! of try_connect_to_server returns because one of the three
\* tasks has ended: remove the link under server_addr, Ok(())
LinkSelect(n) ==
    /\ session[n].pc = "select"
    /\ \/ session[n].heartbeat = "done"
       \/ session[n].read_task = "done"
       \/ session[n].write_task = "done"
    /\ links' = None
    /\ session' = [session EXCEPT ![n].pc = "done"]
    /\ UNCHANGED <<tunnelVars, supervisorVars, codec, reader, crypto, parser,
                   outbound, lstream>>

\* read_task of the local connection s reads bytes from the local
\* service: forward them as Data on the link under server_addr, or break
\* if there is no link or its channel is closed
LstreamData(s) ==
    /\ lstream[s].read_task = "run"
    /\ lstream[s].sent < MaxBytes
    /\ outbound' = LinkSent(Data(s, <<-(lstream[s].sent + 1)>>))
    /\ lstream' = IF links # None /\ LinkSendOk
                  THEN [lstream EXCEPT ![s].sent = @ + 1]
                  ELSE [lstream EXCEPT ![s].read_task = "done",
                                       ![s].registered = FALSE]
    /\ UNCHANGED <<tunnelVars, supervisorVars, codec, reader, crypto, parser,
                   links, session>>

\* read_task of the local connection s reads Ok(0): send CloseConnection
\* on the link under server_addr and break; handle_local_connection then
\* removes s from the table
LstreamEof(s) ==
    /\ lstream[s].read_task = "run"
    /\ outbound' = LinkSent(CloseConnection(s))
    /\ lstream' = [lstream EXCEPT ![s].read_task = "done",
                                  ![s].registered = FALSE]
    /\ UNCHANGED <<tunnelVars, supervisorVars, codec, reader, crypto, parser,
                   links, session>>

NextLinks ==
    \/ \E n \in Sessions : LinkStore(n)
    \/ \E n \in Sessions : LinkHeartbeat(n)
    \/ \E n \in Sessions, i \in 1..Cardinality(Ports), s \in StreamIds,
          ok \in BOOLEAN : LinkNewConnection(n, i, s, ok)
    \/ \E n \in Sessions, s \in StreamIds : LinkCloseConnection(n, s)
    \/ \E n \in Sessions : LinkReadEnd(n)
    \/ \E n \in Sessions : LinkWriteError(n)
    \/ \E n \in Sessions : LinkWriteEnd(n)
    \/ \E n \in Sessions : LinkSelect(n)
    \/ \E s \in StreamIds : LstreamData(s)
    \/ \E s \in StreamIds : LstreamEof(s)

SpecLinks == InitLinks /\ [][NextLinks]_vars

\* ------------------------------------------------------------- claims
IsPrefix(a, b) == Len(a) <= Len(b) /\ SubSeq(b, 1, Len(a)) = a

\* C1: for every connection_id the bytes written to the local service
\* socket are a prefix of the bytes the public peer sent (no Data chunk is
\* dropped on its way through the client).
C1_LocalOutIsPrefixOfPublicSent ==
    \A s \in StreamIds : IsPrefix(local_out[s], pub[s].sent)

\* C2: in every reachable state the owner of every port in the port
\* registry is present in the client registry.
C2_ListenerOwnerIsRegistered ==
    \A p \in DOMAIN proxy_listeners :
        proxy_listeners[p].client_id \in DOMAIN clients

\* C3: in every reachable state the client_id of every connection in the
\* active-connection registry is present in the client registry.
C3_ConnectionOwnerIsRegistered ==
    \A s \in DOMAIN proxy_connections :
        proxy_connections[s].client_id \in DOMAIN clients

\* no registry entry references k, and no accept loop of k is left with
\* its listener bound
NoTraceOf(k) ==
    /\ k \notin DOMAIN clients
    /\ PortsOf(k) = {}
    /\ \A s \in DOMAIN proxy_connections : proxy_connections[s].client_id # k
    /\ \A p \in Ports : accept_loop[p].client_id # k

\* C4: once the control socket of a client is closed and its session has
\* ended, the server comes to rest, with no new public connection, only in
\* a state where no registry entry references the client and none of its
\* accept loops or listeners is left.
C4_TeardownLeavesNoTrace ==
    \A c \in TunnelConns :
        (/\ hc[c].pc = "done"
         /\ hc[c].client_id # NoId
         /\ ~peer_open[c]
         /\ ~ENABLED Settle)
        => NoTraceOf(hc[c].client_id)

\* the connection c holds the registry entry of its client_id
Registered(c) ==
    /\ hc[c].client_id \in DOMAIN clients
    /\ clients[hc[c].client_id].conn = c

\* the step in which handle_client of c finds a valid Auth whose client_id
\* is in the client registry
DuplicateAuth(c) ==
    /\ hc[c].pc = "none"
    /\ hc'[c].pc # "none"
    /\ hc'[c].client_id \in DOMAIN clients

\* C5: no two connections are registered under one client_id, and an Auth
\* whose client_id is already registered ends that connection without
\* tasks, leaving the registries, the registered session, its accept loops
\* and its streams unchanged.
C5_DuplicateAuthRejected ==
    /\ [](\A c, d \in Conn :
            (Registered(c) /\ Registered(d)
             /\ hc[c].client_id = hc[d].client_id) => c = d)
    /\ [][\A c \in Conn :
            DuplicateAuth(c) =>
              /\ hc'[c].pc = "done"
              /\ read_task'[c].pc = "none"
              /\ write_task'[c] = "none"
              /\ UNCHANGED <<clients, proxy_listeners, proxy_connections,
                             accept_loop, stream, chan>>
              /\ \A d \in Conn \ {c} :
                    /\ hc'[d] = hc[d]
                    /\ read_task'[d] = read_task[d]
                    /\ write_task'[d] = write_task[d]
                    /\ sock_in'[d] = sock_in[d]]_vars

\* C5 witness: a connection was refused for its client_id while another
\* connection holds that id's registry entry
C5_Witness ==
    \E c, d \in Conn :
        /\ c # d
        /\ hc[c].pc = "done"
        /\ read_task[c].pc = "none"
        /\ peer_open[c]
        /\ hc[c].client_id = hc[d].client_id
        /\ Registered(d)

\* the step in which the second half of ProxyConfig on c answers
\* success=false, "already in use"
RejectedInUse(c) ==
    /\ read_task[c].pc = "listeners"
    /\ read_task'[c].pc = "read"
    /\ Len(chan'[c]) = Len(chan[c]) + 1
    /\ chan'[c][Len(chan'[c])] = ProxyConfigResponse(FALSE, None, Some(ErrInUse))

\* C6: a ProxyConfig that is answered success=false, "already in use", has
\* not been answered success=true.
C6_RejectedRequestHadNoSuccess ==
    [][\A c \in Conn :
         RejectedInUse(c) =>
           ProxyConfigResponse(TRUE, Some(read_task[c].proxy_id), None)
             \notin Range(chan[c])]_vars

\* the step in which the second half of ProxyConfig on c finds the port
\* owned by a different client
ConflictingConfig(c, p) ==
    /\ read_task[c].pc = "listeners"
    /\ read_task'[c].pc # "listeners"
    /\ read_task[c].message.remote_port = p
    /\ p \in DOMAIN proxy_listeners
    /\ proxy_listeners[p].client_id # hc[c].client_id

\* C7: a ProxyConfig for a port whose registry entry is owned by a
\* different client leaves that entry and its accept loop unchanged.
C7_ConflictingConfigKeepsEntry ==
    [][\A c \in Conn, p \in Ports :
         ConflictingConfig(c, p) =>
           /\ p \in DOMAIN proxy_listeners'
           /\ proxy_listeners'[p] = proxy_listeners[p]
           /\ accept_loop'[p] = accept_loop[p]]_vars

\* C7 witness: a request was rejected as "already in use" and the port is
\* owned by another client
C7_Witness ==
    \E c \in Conn, p \in DOMAIN proxy_listeners :
        /\ ProxyConfigResponse(FALSE, None, Some(ErrInUse)) \in Range(chan[c])
        /\ hc[c].client_id # NoId
        /\ proxy_listeners[p].client_id # hc[c].client_id

\* the first frame is an Auth whose enc_token is not the salted hash of
\* the configured token
BadTokenAuth(r) ==
    /\ r.kind = "frame"
    /\ r.message.type = "Auth"
    /\ r.message.enc_token # sha256_with_salt(ConfigToken, MAGIC_SALT)

\* the first frame is an Auth carrying the salted hash of the token
GoodTokenAuth(r) ==
    /\ r.kind = "frame"
    /\ r.message.type = "Auth"
    /\ r.message.enc_token = sha256_with_salt(ConfigToken, MAGIC_SALT)

\* nothing was registered or started on behalf of connection c
NothingStarted(c) ==
    /\ hc[c].pc = "done"
    /\ read_task[c].pc = "none"
    /\ write_task[c] = "none"
    /\ chan[c] = <<>>
    /\ \A k \in DOMAIN clients : clients[k].conn # c
    /\ next_proxy_id[c] = FirstProxyId(c)
    /\ \A p \in DOMAIN proxy_listeners :
          proxy_listeners[p].proxy_id \notin
            FirstProxyId(c)..(next_proxy_id[c] - 1)

\* C8: an Auth with a wrong enc_token is answered with exactly one
\* AuthResponse{success=false, session_key=none, error="Invalid token"} and
\* the connection ends: no session is registered, no task is started and no
\* port is bound for it.
C8_BadTokenRefused ==
    \A c \in Conn :
        (hc[c].pc # "none" /\ BadTokenAuth(hc[c].first)) =>
          /\ sock_out[c] = <<AuthResponse(FALSE, None, Some("Invalid token"))>>
          /\ NothingStarted(c)

\* C8 witness: a connection presented a wrong enc_token and was answered
C8_Witness ==
    \E c \in Conn :
        /\ BadTokenAuth(hc[c].first)
        /\ hc[c].pc = "done"
        /\ Len(sock_out[c]) = 1

\* C9: a connection whose first read fails or whose first frame is not
\* Auth is aborted with nothing sent, registered or processed; and a
\* read_task runs only on a connection whose Auth succeeded.
C9_NoSessionWithoutAuth ==
    \A c \in Conn :
        /\ (/\ hc[c].pc # "none"
            /\ ~(hc[c].first.kind = "frame"
                 /\ hc[c].first.message.type = "Auth"))
           => (sock_out[c] = <<>> /\ NothingStarted(c))
        /\ read_task[c].pc # "none"
           => (/\ GoodTokenAuth(hc[c].first)
               /\ sock_out[c] # <<>>
               /\ sock_out[c][1].type = "AuthResponse"
               /\ sock_out[c][1].success)

\* C9 witness: connections were aborted on an incomplete frame and on a
\* first frame that is not Auth
C9_Witness ==
    \E c, d \in Conn :
        /\ hc[c].pc = "done" /\ hc[c].first.kind = "partial"
        /\ hc[d].pc = "done" /\ hc[d].first.kind = "frame"
        /\ hc[d].first.message.type = "ProxyConfig"

\* the AuthResponse sent on c carries the key derived from the configured
\* token and the received client_id, of 32 bytes, and so does the registry
SessionKeyAgreed(c) ==
    LET key == derive_session_key(ConfigToken, hc[c].first.message.client_id)
    IN
    /\ sock_out[c] = <<AuthResponse(TRUE, Some(key), None)>>
    /\ Len(key) = 32
    /\ Registered(c) => clients[hc[c].client_id].crypto = key

\* the step in which handle_client of c finds an Auth with the right token
TokenMatchStep(c) ==
    /\ hc[c].pc = "none"
    /\ hc'[c].pc # "none"
    /\ GoodTokenAuth(hc'[c].first)

\* C10: on a token match the AuthResponse{success=true} carries
\* derive_session_key(configured token, received client_id), 32 bytes, and
\* the session is registered with that key unless the client_id is already
\* registered or the AuthResponse could not be written.
C10_SessionKeyDerived ==
    /\ [](\A c \in Conn :
            (hc[c].pc # "none" /\ GoodTokenAuth(hc[c].first)) =>
              /\ hc[c].client_id = hc[c].first.message.client_id
              /\ SessionKeyAgreed(c))
    /\ [][\A c \in Conn :
            TokenMatchStep(c) =>
              \/ Registered(c)'
              \/ hc'[c].client_id \in DOMAIN clients
              \/ ~peer_open'[c]]_vars

\* C10 witness: a session is registered after a token match
C10_Witness ==
    \E c \in Conn :
        /\ GoodTokenAuth(hc[c].first)
        /\ Registered(c)
        /\ read_task[c].pc = "read"

\* C10 as stated: on a token match, the AuthResponse written, the
\* session is registered
C10_TokenMatchRegisters ==
    [][\A c \in Conn :
         (TokenMatchStep(c) /\ peer_open'[c]) => Registered(c)']_vars

\* the step in which a cleanup_client call of connection c, made by its
\* read_task or by its handle_client, passes its first locked section
CleanupCallStep(c) ==
    \/ /\ read_task[c].pc = "read"
       /\ read_task'[c].pc \in {"cleanup_listeners", "done"}
    \/ /\ hc[c].pc = "select"
       /\ hc'[c].pc \in {"cleanup_listeners", "done"}

\* C11: a cleanup_client call made for a session whose registry entry has
\* already been removed changes no registry.
C11_SecondCleanupChangesNothing ==
    [][\A c \in Conn :
         (CleanupCallStep(c) /\ ~Registered(c)) =>
           UNCHANGED <<clients, proxy_listeners, proxy_connections>>]_vars

\* the step in which the second half of ProxyConfig on c fails to bind
\* the port and answers success=false
BindFailed(c) ==
    /\ read_task[c].pc = "listeners"
    /\ read_task'[c].pc = "read"
    /\ Len(chan'[c]) = Len(chan[c]) + 1
    /\ chan'[c][Len(chan'[c])] = ProxyConfigResponse(FALSE, None, Some(ErrBind))

\* C20: a ProxyConfig whose bind fails is answered success=false and has
\* not been answered success=true; no port-registry entry is installed and
\* the session stays registered and goes on reading.
C20_BindFailureReported ==
    [][\A c \in Conn :
         BindFailed(c) =>
           /\ ProxyConfigResponse(TRUE, Some(read_task[c].proxy_id), None)
                \notin Range(chan[c])
           /\ proxy_listeners' = proxy_listeners
           /\ clients' = clients
           /\ Registered(c)']_vars

\* both ends of connection s finish: the public peer and the local service
\* each send their bytes and then close their sending side
BothEndsFinish(s) ==
    /\ local[s].pc # "none"
    /\ ~pub[s].open
    /\ ~svc[s].open

\* each end has been handed exactly the bytes the other end sent
Delivered(s) ==
    /\ pub[s].received = svc[s].sent
    /\ local_out[s] = pub[s].sent

\* C12: when the public peer and the local service of a connection each
\* send a finite byte sequence and then close, each of them eventually has
\* received exactly the bytes the other one sent (unless a read from or a
\* write to the public socket fails).
C12_BothDirectionsDelivered ==
    \A s \in StreamIds :
      BothEndsFinish(s) ~>
        (Delivered(s) \/ stream[s].write_error \/ stream[s].read_error)

\* the client's read_task of connection s has read EOF from the local
\* service and has sent CloseConnection{s} to the server
LocalClosed(s) == local[s].read_task = "done"

\* the server is done with connection s: no ActiveConnection is registered
\* and handle_proxy_stream has returned, dropping the public socket
StreamClosed(s) ==
    /\ s \notin DOMAIN proxy_connections
    /\ stream[s].pc = "done"

\* C13: once the local service has closed connection s and the client has
\* sent CloseConnection{s}, the server eventually removes the
\* ActiveConnection of s and closes the public socket.
C13_CloseConnectionClosesStream ==
    \A s \in StreamIds : LocalClosed(s) ~> StreamClosed(s)

\* bytes of a public peer are numbered upwards and those of a local
\* service downwards, so a byte sequence keeps the order in which it was
\* read iff it is monotone
Ascending(q) == \A i, j \in DOMAIN q : i < j => q[i] < q[j]

Descending(q) == \A i, j \in DOMAIN q : i < j => q[i] > q[j]

C15_SupervisorReconnects ==
    /\ [](supervisor.pc # "returned")
    /\ [](supervisor.result # "none" => supervisor.pc = "sleep")
    /\ (supervisor.pc = "sleep") ~> (supervisor.pc = "connect")
    /\ [](supervisor.pc = "session" \/ supervisor.result = "Ok"
            => ConfigsWritten = services)

\* a later attempt is in its session, each of two services announced
C15_Witness ==
    /\ supervisor.attempt > 1
    /\ supervisor.pc = "session"
    /\ Len(services) > 1
    /\ ConfigsWritten = services

\* the read yielded a frame holding AuthResponse{success=true} with a
\* session key
SuccessWithKey(r) ==
    /\ r.kind = "frame"
    /\ r.message.type = "AuthResponse"
    /\ r.message.success
    /\ r.message.session_key # None

\* C16: an attempt whose read after Auth timed out, hit EOF or an error,
\* or yielded anything but an AuthResponse with success and a usable
\* session key, is over and a reconnect is pending; it has written no
\* ProxyConfig and stored no ServerLink.
C16_FailedHandshakeEndsAttempt ==
    (supervisor.first # NoRead /\ ~SuccessWithKey(supervisor.first)) =>
      /\ supervisor.pc = "sleep"
      /\ supervisor.result = "Err"
      /\ supervisor.wrote = <<Auth(sha256_with_salt(ConfigToken, MAGIC_SALT),
                                   TunnelClient)>>
      /\ ServerAddr \notin connections

\* the server answered success=false (and yet sent a session key)
C16_Witness ==
    /\ supervisor.first.kind = "frame"
    /\ supervisor.first.message.type = "AuthResponse"
    /\ ~supervisor.first.message.success
    /\ supervisor.first.message.session_key # None
    /\ supervisor.pc = "sleep"
    /\ services # <<>>

RECURSIVE WireLen(_, _)
WireLen(q, k) ==
    IF k = 0 THEN 0 ELSE Len(serialize(q[k])) + WireLen(q, k - 1)

\* bytes fed to the reader so far
BytesFed == Len(Wire(reader.sent)) - Len(reader.pending)

\* C18: however the byte stream of the serialized frames is cut into
\* chunks, the reader hands out the frames of the stream in order and
\* without error: a frame only once its last byte has been fed, every frame
\* whose last byte has been fed once the reader is drained, and so at the
\* end of the stream the very frames that feeding it at once yields.
C18_ChunkingIsInvisible ==
    LET n == Len(reader.frames) IN
    /\ reader.pc # "error"
    /\ n <= Len(reader.sent)
    /\ reader.frames = SubSeq(reader.sent, 1, n)
    /\ WireLen(reader.sent, n) <= BytesFed
    /\ reader.pc = "feed" /\ n < Len(reader.sent) =>
         WireLen(reader.sent, n + 1) > BytesFed
    /\ reader.pc = "feed" /\ reader.pending = <<>> =>
         reader.frames = reader.sent

\* a chunk ended inside the length field of the second frame: the first
\* frame has been handed out and the reader waits with part of a header
C18_Witness ==
    /\ Len(reader.frames) = 1
    /\ Len(reader.sent) = 2
    /\ reader.pc = "feed"
    /\ reader.buffer # <<>>
    /\ Len(reader.buffer) < 4

\* C19: CryptoContext::new fails exactly for keys that are not 32 bytes
\* long; with a context made from a derived session key, decrypt returns
\* the data that encrypt was given; and decrypt fails on every input
\* shorter than 12 bytes.
C19_CryptoRoundTrip ==
    /\ crypto.pc # "new" => ((crypto.pc = "failed") <=> (Len(crypto.key) # 32))
    /\ crypto.pc = "decrypted" =>
         /\ crypto.fed = Len(crypto.encrypted) =>
              crypto.result.ok /\ crypto.result.value = crypto.data
         /\ crypto.fed < 12 => ~crypto.result.ok

\* two bytes have been encrypted and decrypted again
C19_Witness ==
    /\ crypto.pc = "decrypted"
    /\ crypto.fed = Len(crypto.encrypted)
    /\ Len(crypto.data) = 2
    /\ crypto.result.ok

\* the step in which read_task of c takes a Heartbeat off its socket,
\* handles it and returns to its read
HeartbeatStep(c) ==
    /\ read_task[c].pc = "read"
    /\ sock_in[c] # <<>>
    /\ Head(sock_in[c]).type = "Heartbeat"
    /\ sock_in'[c] = Tail(sock_in[c])
    /\ read_task'[c].pc = "read"

\* the step appends exactly one message, m, to the channel of session d
Enqueued(d, m) ==
    chan' = [chan EXCEPT ![d] = Append(@, m)]

\* C21: a Heartbeat{ts} from a client whose registry entry exists and whose
\* channel is still received from is answered by exactly one
\* HeartbeatResponse{ts}, put at the end of that client's channel; without
\* such an entry nothing is enqueued; in both cases no registry changes and
\* no task of the session ends.
C21_HeartbeatEchoed ==
    [][\A c \in Conn :
         HeartbeatStep(c) =>
           LET k == hc[c].client_id
               ts == Head(sock_in[c]).timestamp
           IN
           /\ IF ClientExists(k) /\ write_task[clients[k].conn] # "done"
              THEN Enqueued(clients[k].conn, HeartbeatResponse(ts))
              ELSE chan' = chan
           /\ UNCHANGED <<clients, proxy_listeners, proxy_connections>>
           /\ hc' = hc
           /\ write_task' = write_task]_vars

\* the second of two heartbeats has been answered behind the first
C21_Witness ==
    \E c \in Conn :
      /\ Registered(c)
      /\ chan[c] = <<HeartbeatResponse(1), HeartbeatResponse(2)>>
      /\ sock_in[c] = <<>>

\* C21 as stated: every Heartbeat{ts} taken from a registered client is
\* answered by exactly one HeartbeatResponse{ts}.
C21_EveryHeartbeatAnswered ==
    [][\A c \in Conn :
         (HeartbeatStep(c) /\ Registered(c)) =>
           Enqueued(c, HeartbeatResponse(Head(sock_in[c]).timestamp))]_vars

\* the session of connection c has been closed: its read_task has left
\* its loop and run teardown, and c holds no registry entry
SessionClosed(c) ==
    /\ read_task[c].pc = "done"
    /\ ~Registered(c)

\* read_task of c is at its read with a frame of the given types next
NextFrameIs(c, types) ==
    /\ read_task[c].pc = "read"
    /\ sock_in[c] # <<>>
    /\ Head(sock_in[c]).type \in types

\* C22: when a complete frame whose payload fails to decode arrives on an
\* established session, the server eventually closes that session.
C22_UndecodableFrameClosesSession ==
    \A c \in Conn : NextFrameIs(c, {"Undecodable"}) ~> SessionClosed(c)

\* C29: when a message that no established session expects from a client
\* arrives, the server eventually closes that session.
C29_UnexpectedMessageClosesSession ==
    \A c \in Conn : NextFrameIs(c, {"HeartbeatResponse"}) ~> SessionClosed(c)

\* read_task of c takes a ConnectionResponse{success = false} off the
\* control connection
FailedConnectStep(c) ==
    /\ NextFrameIs(c, {"ConnectionResponse"})
    /\ ~Head(sock_in[c]).success
    /\ sock_in'[c] = Tail(sock_in[c])
    /\ read_task'[c].pc = "read"

\* C28: when the server receives ConnectionResponse{C, success = false},
\* the client having registered no local connection for C, it removes the
\* ActiveConnection C and CloseConnection{C} has been sent to the client.
C28_FailedConnectClosesConnection ==
    [][\A c \in Conn :
         FailedConnectStep(c) =>
           LET s == Head(sock_in[c]).connection_id IN
           /\ s \notin local_connections
           /\ local[s].pc = "none"
           /\ s \notin DOMAIN proxy_connections'
           /\ \E i \in 1..Len(chan'[c]) : chan'[c][i] = CloseConnection(s)]_vars

\* the read_task of the local engine of s holds the read half of the local
\* socket and is reading it
LocalSocketRead(s) == local[s].read_task = "run"

\* C23: on the client, a local socket that is open and being read has its
\* connection_id in the local connection table.
C23_ReadSocketIsInTable ==
    \A s \in StreamIds : LocalSocketRead(s) => s \in local_connections

\* the step enqueues a Data or CloseConnection of connection s on a tunnel
EnqueuesFor(s) ==
    \E c \in Conn :
      /\ Len(chan'[c]) > Len(chan[c])
      /\ LET m == chan'[c][Len(chan'[c])] IN
           /\ m.type \in {"Data", "CloseConnection"}
           /\ m.connection_id = s

\* C25: once handle_proxy_stream has returned for a connection, no task of
\* it reads the public socket or enqueues Data or CloseConnection for it.
C25_EngineReturnStopsBothTasks ==
    [][\A s \in StreamIds :
         stream[s].pc = "done" =>
           /\ pub'[s].unread = pub[s].unread
           /\ ~EnqueuesFor(s)]_vars

\* client k owns port p: the port registry holds p under k's client_id
Owns(k, p) ==
    /\ p \in DOMAIN proxy_listeners
    /\ proxy_listeners[p].client_id = k

\* read_task of c takes a ProxyConfig for a port its client owns and mints
\* a proxy_id (first lock)
ReconfigMints(c) ==
    /\ NextFrameIs(c, {"ProxyConfig"})
    /\ Owns(hc[c].client_id, Head(sock_in[c]).remote_port)
    /\ read_task'[c].pc = "listeners"

\* read_task of c finds the port of its ProxyConfig owned by its client
\* (second lock)
ReconfigFindsPort(c) ==
    /\ read_task[c].pc = "listeners"
    /\ Owns(hc[c].client_id, read_task[c].message.remote_port)
    /\ read_task'[c].pc = "read"

\* the accept loop of port p, still owned by the loop's client, notifies
\* that client of a public connection
NotifiesOwner(p) ==
    /\ accept_loop[p].pc = "notify"
    /\ accept_loop'[p].pc = "wait"
    /\ Owns(accept_loop[p].client_id, p)
    /\ chan' # chan

\* C26: a ProxyConfig for a port the client already owns is answered (on a
\* channel that is still received from) by success=true with a proxy_id
\* that is new; no listener is started, the port-registry entry stays as it
\* is and no failure is sent; a later NewConnection of that port carries the
\* proxy_id of the registry entry, not the new one.
C26_ReconfigKeepsListener ==
    [][/\ \A c \in Conn :
            /\ ReconfigMints(c) =>
                 LET k == hc[c].client_id
                     p == Head(sock_in[c]).remote_port
                     proxy_id == read_task'[c].proxy_id
                 IN
                 /\ IF ClientExists(k) /\ write_task[clients[k].conn] # "done"
                    THEN Enqueued(clients[k].conn,
                                  ProxyConfigResponse(TRUE, Some(proxy_id), None))
                    ELSE chan' = chan
                 /\ proxy_id # proxy_listeners[p].proxy_id
                 /\ \A q \in DOMAIN proxy_listeners :
                      proxy_id # proxy_listeners[q].proxy_id
                 /\ proxy_listeners' = proxy_listeners
                 /\ accept_loop' = accept_loop
            /\ ReconfigFindsPort(c) =>
                 /\ chan' = chan
                 /\ proxy_listeners' = proxy_listeners
                 /\ accept_loop' = accept_loop
       /\ \A p \in Ports :
            NotifiesOwner(p) =>
              Enqueued(clients[accept_loop[p].client_id].conn,
                       NewConnection(proxy_listeners[p].proxy_id,
                                     accept_loop[p].connection_id))]_vars

\* a port configured twice has one listener, under the first proxy_id, and
\* the public connection accepted on it is announced under that proxy_id
C26_Witness ==
    \E c \in Conn, p \in Ports :
      LET first == FirstProxyId(c) IN
      /\ Registered(c)
      /\ Owns(hc[c].client_id, p)
      /\ proxy_listeners[p].proxy_id = first
      /\ chan[c] = << ProxyConfigResponse(TRUE, Some(first), None),
                      ProxyConfigResponse(TRUE, Some(first + 1), None),
                      NewConnection(first, 1) >>

\* the frames of connection s on the tunnel to the client of session c, in
\* the order they were enqueued
FramesOf(c, s) ==
    SelectSeq(chan[c],
              LAMBDA m : /\ m.type \in {"NewConnection", "Data", "CloseConnection"}
                         /\ m.connection_id = s)

\* NewConnection, then Data frames, then at most one CloseConnection
OpenDataClose(q) ==
    \/ q = <<>>
    \/ /\ q[1].type = "NewConnection"
       /\ \A i \in 2..Len(q) :
            \/ q[i].type = "Data"
            \/ i = Len(q) /\ q[i].type = "CloseConnection"

\* C27: on every server-to-client tunnel the frames of one connection_id
\* are a NewConnection, then Data frames, then at most one CloseConnection,
\* and nothing after it.
C27_FramesOfConnectionOrdered ==
    \A c \in Conn, s \in StreamIds : OpenDataClose(FramesOf(c, s))

\* the positions of the colons of a string
Colons(str) == { i \in DOMAIN str : str[i] = ":" }

\* the number a string of decimal digits denotes, by place value
RECURSIVE PlaceValue(_)
PlaceValue(d) ==
    IF d = <<>> THEN 0
    ELSE 10 * PlaceValue(SubSeq(d, 1, Len(d) - 1))
           + (CHOOSE v \in 0..9 : Digit[v + 1] = d[Len(d)])

\* a decimal u16: one or more decimal digits, optionally after a '+', that
\* denote a number up to 65535
IsDecimalU16(f) ==
    LET d == IF f # <<>> /\ f[1] = "+" THEN Tail(f) ELSE f IN
    /\ d # <<>>
    /\ Len(d) <= 9
    /\ \A i \in DOMAIN d : d[i] \in Range(Digit)
    /\ PlaceValue(d) <= 65535

DecimalValue(f) == PlaceValue(IF f[1] = "+" THEN Tail(f) ELSE f)

\* what the claim says parsing str yields
Expected(str, r) ==
    LET cols == Colons(str) IN
    IF Cardinality(cols) = 2
    THEN LET i == CHOOSE x \in cols : \A y \in cols : x <= y
             j == CHOOSE x \in cols : \A y \in cols : y <= x
             f1 == SubSeq(str, 1, i - 1)
             f2 == SubSeq(str, i + 1, j - 1)
             f3 == SubSeq(str, j + 1, Len(str))
         IN
         IF IsDecimalU16(f2) /\ IsDecimalU16(f3)
         THEN /\ r.ok
              /\ r.config.local_ip = f1
              /\ r.config.local_port = DecimalValue(f2)
              /\ r.config.remote_port = DecimalValue(f3)
         ELSE ~r.ok
    ELSE ~r.ok

\* C24: parsing a service string succeeds exactly when it has three
\* colon-separated fields of which the second and third are decimal u16
\* numbers; the result then has local_ip = field 1, local_port = field 2 and
\* remote_port = field 3; every other string yields a parse error.  Both
\* parsers agree.
C24_ServiceStringParsed ==
    /\ parser.pc \in {"parsed", "both"} =>
         Expected(parser.service_str, parser.result)
    /\ parser.pc = "both" =>
         Expected(parser.service_str, parser.cli_result)

\* a string with the largest port has been parsed by both parsers
C24_Witness ==
    /\ parser.pc = "both"
    /\ parser.result.ok
    /\ parser.cli_result.ok
    /\ parser.result.config.local_ip = <<"h">>
    /\ parser.result.config.local_port = 80
    /\ parser.result.config.remote_port = 65535

\* a step of the stream engine of connection s or of one of its tasks,
\* errors on the public socket included
StreamStep(s) ==
    /\ stream[s].pc # "none"
    /\ \/ stream'[s] # stream[s]
       \/ pub'[s] # pub[s]
       \/ stream_chan'[s] # stream_chan[s]

\* read_task of c handles a Data frame: forwarded, dropped for an unknown
\* connection_id, or dropped because the send into the channel fails
DataStep(c) ==
    /\ NextFrameIs(c, {"Data"})
    /\ sock_in'[c] = Tail(sock_in[c])

\* the session, the port entries and the other connections stay as they
\* are; of the active connections only s may change
OnlyConnectionTouched(s) ==
    /\ clients' = clients
    /\ proxy_listeners' = proxy_listeners
    /\ accept_loop' = accept_loop
    /\ hc' = hc
    /\ write_task' = write_task
    /\ \A c \in Conn : read_task'[c].pc = read_task[c].pc
    /\ \A t \in (DOMAIN proxy_connections \cup DOMAIN proxy_connections') \ {s} :
         /\ t \in DOMAIN proxy_connections
         /\ t \in DOMAIN proxy_connections'
         /\ proxy_connections'[t] = proxy_connections[t]

\* C30: no step of a stream engine (a read or write error on the public
\* socket included) and no Data frame (for an unknown connection_id or into
\* a channel whose receiver is gone included) changes the owning client's
\* registry entry, its port entries or its other active connections, or
\* ends a task of its session.
C30_StreamErrorsStayLocal ==
    [][/\ \A s \in StreamIds : StreamStep(s) => OnlyConnectionTouched(s)
       /\ \A c \in Conn :
            DataStep(c) =>
              /\ OnlyConnectionTouched(Head(sock_in[c]).connection_id)
              /\ proxy_connections' = proxy_connections]_vars

\* a write to the public socket has failed and a Data frame has been
\* dropped, next to the idle connection and under the registered session
C30_Witness ==
    \E s \in StreamIds, c \in Conn :
      /\ stream[s].write_error
      /\ stream[s].pc = "done"
      /\ s \notin DOMAIN proxy_connections
      /\ IdleConnection \in DOMAIN proxy_connections
      /\ Registered(c)
      /\ read_task[c].pc = "read"
      /\ sock_in[c] = <<>>
      /\ \E i \in 1..Len(chan[c]) : chan[c][i].type = "NewConnection"
      /\ svc[s].sent # <<>>
      /\ svc[s].unread = <<>>
      /\ Len(pub[s].received) < Len(svc[s].sent)

\* C36: a cleanup_client call made by the read_task or the handle_client
\* of one session never ends the registration of another session, also
\* when both registered with the same client_id.
C36_TeardownSparesLaterSession ==
    [][\A c, d \in Conn :
         (c # d /\ CleanupCallStep(c) /\ Registered(d)) => Registered(d)']_vars

\* C34: the client registry never holds more than max_clients sessions.
C34_RegistryWithinMaxClients ==
    Cardinality(DOMAIN clients) <= max_clients

\* the messages of a local connection queued on the channel of session m
StreamFramesOn(m) ==
    { k \in 1..Len(outbound[m]) :
        outbound[m][k].type \in {"Data", "CloseConnection"} }

\* C31: the streams opened through a tunnel session end with it: no Data
\* and no CloseConnection of a stream opened through one session is ever
\* queued on the tunnel of another session to the same server address
C31_StreamFramesStayInSession ==
    \A m \in Sessions : \A k \in StreamFramesOn(m) :
        lstream[outbound[m][k].connection_id].session = m

\* C32: the heartbeat task of a session sends its Heartbeats on the
\* channel of that session only: a tick of the task of session n that
\* sends a Heartbeat queues it on the tunnel of session n
C32_HeartbeatOnOwnSession ==
    [][\A n \in Sessions :
         session'[n].beats > session[n].beats =>
             outbound'[n] = Append(outbound[n], Heartbeat(session'[n].beats))]_vars

\* C40: a task left over from an ended session to the server address
\* never changes the ServerLink of a later session: when the read_task of
\* session n ends while the link of another session is stored, the link
\* is unchanged
C40_LeftoverTaskLeavesLaterLink ==
    [][\A n \in Sessions :
         (/\ session[n].read_task = "run"
          /\ session'[n].read_task = "done"
          /\ links # None
          /\ links[1].session # n) => links' = links]_vars

\* C33: a NewConnection is dispatched by its proxy_id: the local service
\* the client connects to is the one the proxy_id was minted for
C33_NewConnectionDialsItsService ==
    \A s \in StreamIds :
        lstream[s].session # 0 => lstream[s].service = lstream[s].proxy

\* the length field at the head of the buffer, if it is complete
HeaderLength(b) ==
    IF Len(b) < 4 THEN 0
    ELSE 16777216 * b[1] + 65536 * b[2] + 256 * b[3] + b[4]

\* fewer than 4 bytes, or fewer than 4 + length bytes, are buffered
NeedMore(b) == Len(b) < 4 \/ Len(b) < 4 + HeaderLength(b)

\* C35: a call of try_read_frame on a buffer that holds fewer than 4 or
\* fewer than 4 + length bytes returns None and leaves the buffer as it
\* was; a call that returns a frame takes exactly the first 4 + length
\* bytes out of the buffer; and a call returns an error only if the
\* payload is completely buffered and does not decode.
C35_TryReadFrameEffect ==
    [][reader.pc = "drain" =>
         LET b == reader.buffer
             length == HeaderLength(b)
         IN
         /\ NeedMore(b) =>
               /\ reader'.pc = "feed"
               /\ reader'.buffer = b
               /\ reader'.frames = reader.frames
         /\ reader'.frames # reader.frames =>
               /\ ~NeedMore(b)
               /\ Len(reader'.frames) = Len(reader.frames) + 1
               /\ reader'.buffer = SubSeq(b, 4 + length + 1, Len(b))
         /\ reader'.pc = "error" =>
               /\ ~NeedMore(b)
               /\ ~decode_from_slice(SubSeq(b, 5, 4 + length)).ok]_vars

\* a frame has been taken out of a buffer that held more than that frame,
\* and the next call has returned an error on the payload that followed
C35_Witness ==
    /\ reader.pc = "error"
    /\ Len(reader.frames) = 1
    /\ reader.buffer = BadFrame

\* C37: every port in the port registry has a running accept loop: when
\* an accept loop has ended, by cancel, by an accept error or because
\* its owner is no longer registered, its port is not registered.
C37_RegisteredPortHasAcceptLoop ==
    \A p \in DOMAIN proxy_listeners : accept_loop[p].pc # "none"

\* the step in which read_task of connection c takes a Data frame off its
\* tunnel and hands its bytes to the write_task of connection s
DataHandedOver(c, s) ==
    /\ read_task[c].pc = "read"
    /\ sock_in[c] # <<>>
    /\ Head(sock_in[c]).type = "Data"
    /\ sock_in'[c] # sock_in[c]
    /\ Len(stream_chan'[s]) > Len(stream_chan[s])

\* C38: the bytes of a Data frame received from a client are handed to
\* the public socket of an active connection only if that connection is
\* owned by the client the frame came from.
C38_DataOnlyFromOwner ==
    [][\A c \in Conn, s \in StreamIds :
         DataHandedOver(c, s) =>
             /\ s \in DOMAIN proxy_connections
             /\ proxy_connections[s].client_id = hc[c].client_id]_vars

\* the step queues message m on the tunnel of session n
Queues(n, m) == outbound'[n] = Append(outbound[n], m)

\* a message of the given types that carries connection_id s is already
\* queued on the tunnel of session n
Queued(n, s, types) ==
    \E i \in 1..Len(outbound[n]) :
        /\ outbound[n][i].type \in types
        /\ outbound[n][i].connection_id = s

\* the step queues a Data frame of connection s on the tunnel of session n
QueuesData(n, s) ==
    /\ Len(outbound'[n]) > Len(outbound[n])
    /\ outbound'[n][Len(outbound'[n])].type = "Data"
    /\ outbound'[n][Len(outbound'[n])].connection_id = s

\* C39: on the tunnel to the server the messages of one connection_id
\* are one ConnectionResponse, then Data only after a ConnectionResponse
\* that reported success, then at most one CloseConnection: a Data frame
\* is queued only after the successful ConnectionResponse, before any
\* CloseConnection the client sent, and while the connection is in the
\* local table, from which a CloseConnection of the server removes it.
C39_ClientFramesInOrder ==
    [][\A n \in Sessions, s \in StreamIds :
         /\ (\E ok \in BOOLEAN : Queues(n, ConnectionResponse(s, ok))) =>
               ~Queued(n, s, {"ConnectionResponse", "Data", "CloseConnection"})
         /\ Queues(n, CloseConnection(s)) =>
               ~Queued(n, s, {"CloseConnection"})
         /\ QueuesData(n, s) =>
               /\ \E i \in 1..Len(outbound[n]) :
                     outbound[n][i] = ConnectionResponse(s, TRUE)
               /\ ~Queued(n, s, {"CloseConnection"})
               /\ lstream[s].registered]_vars


============================================================================
